---------------------------- MODULE Spec2Model ----------------------------
(***************************************************************************)
(* Model of the audit estimation engine of the landing page                *)
(* (src/unnamed/part_000, the audit script, and the modal glue of          *)
(* src/landing/script.js).                                                 *)
(*                                                                         *)
(* Text is a sequence of one-character strings.  A JavaScript number is a  *)
(* pair <<n, d>>: the fraction n/d in lowest terms with d > 0, or          *)
(* <<1, 0>> = Infinity, <<-1, 0>> = -Infinity, <<0, 0>> = NaN.  Finite     *)
(* arithmetic is exact (binary rounding of doubles and the sign of zero    *)
(* are not modelled).                                                      *)
(***************************************************************************)
EXTENDS Integers, Sequences, FiniteSets, TLC

(***************************************************************************)
(* JavaScript numbers                                                      *)
(***************************************************************************)
Abs(x) == IF x < 0 THEN -x ELSE x

Sgn(x) == IF x > 0 THEN 1 ELSE IF x < 0 THEN -1 ELSE 0

RECURSIVE Gcd(_, _)
Gcd(a, b) == IF b = 0 THEN a ELSE Gcd(b, a % b)

Num(n, d) ==
    IF d = 0 THEN <<Sgn(n), 0>>
    ELSE LET g == Gcd(Abs(n), Abs(d))
             s == Sgn(d)
         IN  <<(s * n) \div g, (s * d) \div g>>

NaN == <<0, 0>>

PosInf == <<1, 0>>

NegInf == <<-1, 0>>

Zero == <<0, 1>>

I(k) == <<k, 1>>

IsFinite(a) == a[2] # 0

IsInteger(a) == a[2] = 1

Neg(a) == <<-a[1], a[2]>>

Plus(a, b) ==
    IF a = NaN \/ b = NaN THEN NaN
    ELSE IF a[2] = 0 /\ b[2] = 0 THEN (IF a = b THEN a ELSE NaN)
    ELSE IF a[2] = 0 THEN a
    ELSE IF b[2] = 0 THEN b
    ELSE Num(a[1] * b[2] + b[1] * a[2], a[2] * b[2])

Minus(a, b) == Plus(a, Neg(b))

Times(a, b) == Num(a[1] * b[1], a[2] * b[2])

\* 1/x; 1/0 is Infinity, 1/Infinity is 0, 1/NaN is NaN
Recip(a) ==
    IF a[1] = 0 /\ a[2] # 0 THEN PosInf
    ELSE Num(Sgn(a[1]) * a[2], Abs(a[1]))

Divide(a, b) == Times(a, Recip(b))

\* a < b; every comparison with NaN is false
Less(a, b) ==
    /\ a # NaN
    /\ b # NaN
    /\ IF a[2] = 0 /\ b[2] = 0 THEN a[1] < b[1]
       ELSE a[1] * b[2] < b[1] * a[2]

LessEq(a, b) == a # NaN /\ b # NaN /\ ~Less(b, a)

Greater(a, b) == Less(b, a)

GreaterEq(a, b) == LessEq(b, a)

MathMax(a, b) ==
    IF a = NaN \/ b = NaN THEN NaN ELSE IF Less(a, b) THEN b ELSE a

MathMin(a, b) ==
    IF a = NaN \/ b = NaN THEN NaN ELSE IF Less(b, a) THEN b ELSE a

MathFloor(a) == IF a[2] = 0 THEN a ELSE <<a[1] \div a[2], 1>>

MathCeil(a) == IF a[2] = 0 THEN a ELSE <<-((-a[1]) \div a[2]), 1>>

\* Math.round: the nearest integer, a tie going up
MathRound(a) == MathFloor(Plus(a, <<1, 2>>))

\* x || 0 on a number: NaN and 0 are falsy
OrZero(a) == IF a = NaN \/ a = Zero THEN Zero ELSE a

\* Number.prototype.toFixed(2), kept as the number the decimal string denotes
ToFixed2(a) ==
    IF a[2] = 0 THEN a ELSE Divide(MathRound(Times(a, I(100))), I(100))

(***************************************************************************)
(* Text                                                                    *)
(***************************************************************************)
UpperCase == <<"A","B","C","D","E","F","G","H","I","J","K","L","M","N","O","P","Q","R","S","T","U","V","W","X","Y","Z">>

LowerCase == <<"a","b","c","d","e","f","g","h","i","j","k","l","m","n","o","p","q","r","s","t","u","v","w","x","y","z">>

DigitChars == <<"0","1","2","3","4","5","6","7","8","9">>

WhiteSpace == {" ", "\t", "\r", "\n"}

IsDigit(c) == \E i \in 1..10 : DigitChars[i] = c

DigitVal(c) == (CHOOSE i \in 1..10 : DigitChars[i] = c) - 1

LowerChar(c) ==
    IF \E i \in 1..26 : UpperCase[i] = c
    THEN LowerCase[CHOOSE i \in 1..26 : UpperCase[i] = c]
    ELSE c

\* String.prototype.toLowerCase
toLowerCase(s) == [i \in 1..Len(s) |-> LowerChar(s[i])]

\* String.prototype.includes
includes(s, sub) ==
    \E i \in 0..(Len(s) - Len(sub)) : SubSeq(s, i + 1, i + Len(sub)) = sub

StartsWith(s, pre) == Len(s) >= Len(pre) /\ SubSeq(s, 1, Len(pre)) = pre

EndsWith(s, suf) ==
    Len(s) >= Len(suf) /\ SubSeq(s, Len(s) - Len(suf) + 1, Len(s)) = suf

RECURSIVE TrimStart(_)
TrimStart(s) ==
    IF s # <<>> /\ Head(s) \in WhiteSpace THEN TrimStart(Tail(s)) ELSE s

RECURSIVE TrimEnd(_)
TrimEnd(s) ==
    IF s # <<>> /\ s[Len(s)] \in WhiteSpace
    THEN TrimEnd(SubSeq(s, 1, Len(s) - 1)) ELSE s

\* String.prototype.trim
trim(s) == TrimEnd(TrimStart(s))

\* s.replace(/[...]/g, ''): s without the characters of drop
Remove(s, drop) ==
    LET Kept(c) == c \notin drop
    IN  SelectSeq(s, Kept)

\* String.prototype.split on a one-character separator: never empty.
\* The k-th part lies between the (k-1)-th and the k-th separator.
split(s, sep) ==
    LET at     == {i \in 1..Len(s) : s[i] = sep}
        nth(k) == IF k = 0 THEN 0
                  ELSE IF k > Cardinality(at) THEN Len(s) + 1
                  ELSE CHOOSE i \in at : Cardinality({j \in at : j < i}) = k - 1
    IN  [k \in 1..(Cardinality(at) + 1) |-> SubSeq(s, nth(k - 1) + 1, nth(k) - 1)]

\* Array.prototype.join
RECURSIVE join(_, _)
join(parts, sep) ==
    IF parts = <<>> THEN <<>>
    ELSE IF Len(parts) = 1 THEN parts[1]
    ELSE parts[1] \o <<sep>> \o join(Tail(parts), sep)

RECURSIVE TakeDigits(_)
TakeDigits(s) ==
    IF s # <<>> /\ IsDigit(Head(s))
    THEN <<Head(s)>> \o TakeDigits(Tail(s)) ELSE <<>>

RECURSIVE DigitsValue(_, _)
DigitsValue(s, acc) ==
    IF s = <<>> THEN acc ELSE DigitsValue(Tail(s), acc * 10 + DigitVal(Head(s)))

RECURSIVE Pow10(_)
Pow10(k) == IF k = 0 THEN 1 ELSE 10 * Pow10(k - 1)

InfinityWord == <<"I","n","f","i","n","i","t","y">>

\* parseFloat: leading white space, a sign, then "Infinity" or the longest
\* decimal literal (digits, an optional fraction); NaN when there is none.
\* Exponents are not modelled (no input of the model has one).
parseFloat(str) ==
    LET s    == TrimStart(str)
        neg  == s # <<>> /\ Head(s) = "-"
        body == IF s # <<>> /\ Head(s) \in {"-", "+"} THEN Tail(s) ELSE s
        ip   == TakeDigits(body)
        rest == SubSeq(body, Len(ip) + 1, Len(body))
        fp   == IF rest # <<>> /\ Head(rest) = "." THEN TakeDigits(Tail(rest))
                ELSE <<>>
        mag  == Num(DigitsValue(ip \o fp, 0), Pow10(Len(fp)))
    IN  IF StartsWith(body, InfinityWord) THEN (IF neg THEN NegInf ELSE PosInf)
        ELSE IF ip = <<>> /\ fp = <<>> THEN NaN
        ELSE IF neg THEN Neg(mag) ELSE mag


(***************************************************************************)
(* Dates.  A Date is <<"date", t>>, <<"invalid", 0>> (Invalid Date) or     *)
(* <<"null", 0>> (no Date).  The model's date cells are date-only ISO      *)
(* strings, which parse to UTC midnight, so t counts whole days since      *)
(* 1970-01-01 (the millisecond values do not fit TLC's integers).  Any     *)
(* other text is an Invalid Date.                                          *)
(***************************************************************************)
NullDate == <<"null", 0>>

InvalidDate == <<"invalid", 0>>

DaysFromCivil(y, m, d) ==
    LET yy  == IF m <= 2 THEN y - 1 ELSE y
        era == yy \div 400
        yoe == yy - era * 400
        mp  == IF m > 2 THEN m - 3 ELSE m + 9
        doy == (153 * mp + 2) \div 5 + d - 1
        doe == yoe * 365 + yoe \div 4 - yoe \div 100 + doy
    IN  era * 146097 + doe - 719468

\* new Date(str)
NewDate(str) ==
    IF /\ Len(str) = 10
       /\ str[5] = "-"
       /\ str[8] = "-"
       /\ \A k \in {1, 2, 3, 4, 6, 7, 9, 10} : IsDigit(str[k])
    THEN LET y == DigitsValue(SubSeq(str, 1, 4), 0)
             m == DigitsValue(SubSeq(str, 6, 7), 0)
             d == DigitsValue(SubSeq(str, 9, 10), 0)
         IN  IF m \in 1..12 /\ d \in 1..31
             THEN <<"date", DaysFromCivil(y, m, d)>>
             ELSE InvalidDate
    ELSE InvalidDate

\* isNaN(date)
IsInvalidDate(dt) == dt[1] = "invalid"

(***************************************************************************)
(* Configuration                                                           *)
(***************************************************************************)
CONFIG ==
    [HARVEST_MIN_CLICKS        |-> I(10),
     HARVEST_MIN_ORDERS        |-> I(3),
     HARVEST_MIN_SALES         |-> I(150),
     NEGATIVE_CLICKS_THRESHOLD |-> I(10),
     NEGATIVE_SPEND_THRESHOLD  |-> I(10),
     ROAS_TARGET               |-> <<5, 2>>]

(***************************************************************************)
(* Reading the file.  A file is [name, text, sheet]: text is what          *)
(* file.text() yields, sheet is what XLSX.utils.sheet_to_json yields for   *)
(* the first sheet (rows of cells, each cell already as String() prints    *)
(* it).                                                                    *)
(***************************************************************************)
NoError == [kind |-> "none", columns |-> <<>>]

Failure(kind, columns) == [kind |-> kind, columns |-> columns]

ExtXlsx == <<".","x","l","s","x">>

ExtXls == <<".","x","l","s">>

ExtCsv == <<".","c","s","v">>

\* file.name.match(/\.(xlsx|xls)$/i)
isExcel(file) ==
    \/ EndsWith(toLowerCase(file.name), ExtXlsx)
    \/ EndsWith(toLowerCase(file.name), ExtXls)

\* file.name.match(/\.csv$/i)
isCsv(file) == EndsWith(toLowerCase(file.name), ExtCsv)

NotBlank(line) == trim(line) # <<>>

CsvCells(line) ==
    LET parts == split(line, ",")
    IN  [k \in 1..Len(parts) |-> Remove(trim(parts[k]), {"\""})]

ReadExcel(file) ==
    LET jsonData == file.sheet
    IN  IF Len(jsonData) < 2
        THEN [error |-> Failure("EmptyOrHeaderOnly", <<>>), header |-> <<>>, rows |-> <<>>]
        ELSE [error  |-> NoError,
              header |-> [k \in 1..Len(jsonData[1]) |-> trim(jsonData[1][k])],
              rows   |-> Tail(jsonData)]

ReadCsv(file) ==
    LET lines == split(file.text, "\n")
        kept  == SelectSeq(Tail(lines), NotBlank)
    IN  IF Len(lines) < 2
        THEN [error |-> Failure("EmptyOrHeaderOnly", <<>>), header |-> <<>>, rows |-> <<>>]
        ELSE [error  |-> NoError,
              header |-> CsvCells(lines[1]),
              rows   |-> [k \in 1..Len(kept) |-> CsvCells(kept[k])]]

ReadTable(file) ==
    IF ~isExcel(file) /\ ~isCsv(file)
    THEN [error |-> Failure("UnsupportedFormat", <<>>), header |-> <<>>, rows |-> <<>>]
    ELSE IF isExcel(file) THEN ReadExcel(file)
    ELSE ReadCsv(file)

(***************************************************************************)
(* Column detection                                                        *)
(***************************************************************************)
HeaderMatches(h, name) == includes(toLowerCase(h), toLowerCase(name))

\* header.findIndex(h => h.toLowerCase().includes(name.toLowerCase()))
findIndex(header, name) ==
    IF \E k \in 1..Len(header) : HeaderMatches(header[k], name)
    THEN (CHOOSE k \in 1..Len(header) :
              /\ HeaderMatches(header[k], name)
              /\ \A j \in 1..(k - 1) : ~HeaderMatches(header[j], name)) - 1
    ELSE -1

\* the lookup with the loops swapped: headers outside, names inside
getColumnIndexByHeader(header, possibleNames) ==
    LET Hit(k) == \E i \in 1..Len(possibleNames) : HeaderMatches(header[k], possibleNames[i])
    IN  IF \E k \in 1..Len(header) : Hit(k)
        THEN (CHOOSE k \in 1..Len(header) : Hit(k) /\ \A j \in 1..(k - 1) : ~Hit(j)) - 1
        ELSE -1

RECURSIVE getColumnIndex(_, _)
getColumnIndex(header, possibleNames) ==
    IF possibleNames = <<>> THEN -1
    ELSE LET idx == findIndex(header, Head(possibleNames))
         IN  IF idx # -1 THEN idx
             ELSE getColumnIndex(header, Tail(possibleNames))

NamesSearchTerm ==
    << <<"C","u","s","t","o","m","e","r"," ","S","e","a","r","c","h"," ","T","e","r","m">>,
       <<"s","e","a","r","c","h"," ","t","e","r","m">>,
       <<"k","e","y","w","o","r","d">> >>

NamesImpressions == << <<"I","m","p","r","e","s","s","i","o","n","s">> >>

NamesClicks == << <<"C","l","i","c","k","s">> >>

NamesSpend == << <<"S","p","e","n","d">>, <<"C","o","s","t">> >>

NamesSales ==
    << <<"7"," ","D","a","y"," ","T","o","t","a","l"," ","S","a","l","e","s">>,
       <<"T","o","t","a","l"," ","S","a","l","e","s">>,
       <<"S","a","l","e","s">> >>

NamesOrders ==
    << <<"7"," ","D","a","y"," ","T","o","t","a","l"," ","O","r","d","e","r","s">>,
       <<"T","o","t","a","l"," ","O","r","d","e","r","s">>,
       <<"O","r","d","e","r","s">> >>

NamesCampaignName ==
    << <<"C","a","m","p","a","i","g","n"," ","N","a","m","e">>,
       <<"C","a","m","p","a","i","g","n">> >>

NamesStartDate ==
    << <<"S","t","a","r","t"," ","D","a","t","e">>, <<"D","a","t","e">> >>

NamesEndDate == << <<"E","n","d"," ","D","a","t","e">> >>

ColumnIndices(header) ==
    [searchTerm   |-> getColumnIndex(header, NamesSearchTerm),
     impressions  |-> getColumnIndex(header, NamesImpressions),
     clicks       |-> getColumnIndex(header, NamesClicks),
     spend        |-> getColumnIndex(header, NamesSpend),
     sales        |-> getColumnIndex(header, NamesSales),
     orders       |-> getColumnIndex(header, NamesOrders),
     campaignName |-> getColumnIndex(header, NamesCampaignName),
     startDate    |-> getColumnIndex(header, NamesStartDate),
     endDate      |-> getColumnIndex(header, NamesEndDate)]

NoIndices ==
    [searchTerm |-> -1, impressions |-> -1, clicks |-> -1, spend |-> -1,
     sales |-> -1, orders |-> -1, campaignName |-> -1, startDate |-> -1,
     endDate |-> -1]

\* the guard with && in place of ||
MissingRequiredBoth(idx) == idx.clicks = -1 /\ idx.spend = -1

\* the guard of "Validate required columns"
MissingRequired(idx) == idx.clicks = -1 \/ idx.spend = -1

\* header.slice(0, 10)
FoundColumns(header) ==
    SubSeq(header, 1, IF Len(header) < 10 THEN Len(header) ELSE 10)

(***************************************************************************)
(* Row parsing                                                             *)
(***************************************************************************)
\* getValue: the cell at the 0-based column idx, '' when there is none
getValue(row, idx) == IF idx >= 0 /\ idx < Len(row) THEN row[idx + 1] ELSE <<>>

\* parseFloat(String(getValue(idx)).replace(/[,$]/g, '')) || 0
NumberCell(row, idx) == OrZero(parseFloat(Remove(getValue(row, idx), {",", "$"})))

UndefinedWord == <<"u","n","d","e","f","i","n","e","d">>

\* the date of a cell, NullDate when the cell is skipped or does not parse
DateCell(row, idx) ==
    LET str == getValue(row, idx)
    IN  IF str # <<>> /\ str # UndefinedWord
        THEN (IF IsInvalidDate(NewDate(str)) THEN NullDate ELSE NewDate(str))
        ELSE NullDate

\* if (!minStartDate || startDate < minStartDate) minStartDate = startDate
TrackMin(minStartDate, startDate) ==
    IF startDate = NullDate THEN minStartDate
    ELSE IF minStartDate = NullDate \/ startDate[2] < minStartDate[2] THEN startDate
    ELSE minStartDate

\* if (!maxEndDate || endDate > maxEndDate) maxEndDate = endDate
TrackMax(maxEndDate, endDate) ==
    IF endDate = NullDate THEN maxEndDate
    ELSE IF maxEndDate = NullDate \/ endDate[2] > maxEndDate[2] THEN endDate
    ELSE maxEndDate

\* roas: sales > 0 ? sales / spend : 0
Roas(sales, spend) == IF Greater(sales, Zero) THEN Divide(sales, spend) ELSE Zero

\* the record pushed for an accepted row
RowRecord(row, idx) ==
    [searchTerm   |-> getValue(row, idx.searchTerm),
     impressions  |-> NumberCell(row, idx.impressions),
     clicks       |-> NumberCell(row, idx.clicks),
     spend        |-> NumberCell(row, idx.spend),
     sales        |-> NumberCell(row, idx.sales),
     orders       |-> NumberCell(row, idx.orders),
     campaignName |-> getValue(row, idx.campaignName),
     roas         |-> Roas(NumberCell(row, idx.sales), NumberCell(row, idx.spend))]

\* if (clicks > 0 || spend > 0)
RowAccepted(row, idx) ==
    \/ Greater(NumberCell(row, idx.clicks), Zero)
    \/ Greater(NumberCell(row, idx.spend), Zero)

EmptyAcc ==
    [searchTerms  |-> <<>>,
     totalSpend   |-> Zero,
     totalSales   |-> Zero,
     totalClicks  |-> Zero,
     minStartDate |-> NullDate,
     maxEndDate   |-> NullDate]

\* one iteration with the dates tracked inside "if (clicks > 0 || spend > 0)"
ParseRowStepDatesOfRecords(acc, row, idx) ==
    IF row = <<>> \/ ~RowAccepted(row, idx) THEN acc
    ELSE [acc EXCEPT
             !.minStartDate = TrackMin(@, DateCell(row, idx.startDate)),
             !.maxEndDate   = TrackMax(@, DateCell(row, idx.endDate)),
             !.searchTerms  = Append(@, RowRecord(row, idx)),
             !.totalSpend   = Plus(@, NumberCell(row, idx.spend)),
             !.totalSales   = Plus(@, NumberCell(row, idx.sales)),
             !.totalClicks  = Plus(@, NumberCell(row, idx.clicks))]

\* one iteration of "for (const row of rows)"
ParseRowStep(acc, row, idx) ==
    IF row = <<>> THEN acc
    ELSE LET dated == [acc EXCEPT
                 !.minStartDate = TrackMin(@, DateCell(row, idx.startDate)),
                 !.maxEndDate   = TrackMax(@, DateCell(row, idx.endDate))]
         IN  IF RowAccepted(row, idx)
             THEN [dated EXCEPT
                 !.searchTerms = Append(@, RowRecord(row, idx)),
                 !.totalSpend  = Plus(@, NumberCell(row, idx.spend)),
                 !.totalSales  = Plus(@, NumberCell(row, idx.sales)),
                 !.totalClicks = Plus(@, NumberCell(row, idx.clicks))]
             ELSE dated

RECURSIVE ParseRows(_, _, _)
ParseRows(acc, rows, idx) ==
    IF rows = <<>> THEN acc
    ELSE ParseRows(ParseRowStep(acc, Head(rows), idx), Tail(rows), idx)

(***************************************************************************)
(* Report window                                                           *)
(***************************************************************************)
\* Math.ceil((maxEndDate - minStartDate) / (1000 * 60 * 60 * 24)) + 1
InclusiveDays(minStartDate, maxEndDate) ==
    Plus(MathCeil(I(maxEndDate[2] - minStartDate[2])), I(1))

\* the window without the "daysInReport > 0" guard
ReportWindowUnguarded(minStartDate, maxEndDate) ==
    IF minStartDate # NullDate /\ maxEndDate # NullDate
    THEN LET days == InclusiveDays(minStartDate, maxEndDate)
         IN  IF Less(days, I(365))
             THEN [daysInReport |-> days, monthlyMultiplier |-> Divide(I(30), days)]
             ELSE [daysInReport |-> I(30), monthlyMultiplier |-> I(1)]
    ELSE [daysInReport |-> I(30), monthlyMultiplier |-> I(1)]

\* the window with the year bound off by one: "daysInReport <= 365"
ReportWindowOffByOne(minStartDate, maxEndDate) ==
    IF minStartDate # NullDate /\ maxEndDate # NullDate
    THEN LET days == InclusiveDays(minStartDate, maxEndDate)
         IN  IF Greater(days, Zero) /\ LessEq(days, I(365))
             THEN [daysInReport |-> days, monthlyMultiplier |-> Divide(I(30), days)]
             ELSE IF Greater(days, I(365))
             THEN [daysInReport |-> I(30), monthlyMultiplier |-> I(1)]
             ELSE [daysInReport |-> days, monthlyMultiplier |-> I(1)]
    ELSE [daysInReport |-> I(30), monthlyMultiplier |-> I(1)]

ReportWindow(minStartDate, maxEndDate) ==
    IF minStartDate # NullDate /\ maxEndDate # NullDate
    THEN LET days == InclusiveDays(minStartDate, maxEndDate)
         IN  IF Greater(days, Zero) /\ Less(days, I(365))
             THEN [daysInReport |-> days, monthlyMultiplier |-> Divide(I(30), days)]
             ELSE IF GreaterEq(days, I(365))
             THEN [daysInReport |-> I(30), monthlyMultiplier |-> I(1)]
             ELSE [daysInReport |-> days, monthlyMultiplier |-> I(1)]
    ELSE [daysInReport |-> I(30), monthlyMultiplier |-> I(1)]

(***************************************************************************)
(* Classification and scoring                                              *)
(***************************************************************************)
\* the negative-keyword test with the spend comparison inverted
isNegativeKeywordInverted(st) ==
    /\ GreaterEq(st.clicks, CONFIG.NEGATIVE_CLICKS_THRESHOLD)
    /\ LessEq(st.spend, CONFIG.NEGATIVE_SPEND_THRESHOLD)
    /\ st.orders = Zero

isNegativeKeyword(st) ==
    /\ GreaterEq(st.clicks, CONFIG.NEGATIVE_CLICKS_THRESHOLD)
    /\ GreaterEq(st.spend, CONFIG.NEGATIVE_SPEND_THRESHOLD)
    /\ st.orders = Zero

\* the harvest test without the orders bound
isHarvestOpportunityAnyOrders(st) ==
    /\ GreaterEq(st.clicks, CONFIG.HARVEST_MIN_CLICKS)
    /\ GreaterEq(st.sales, CONFIG.HARVEST_MIN_SALES)
    /\ GreaterEq(st.roas, CONFIG.ROAS_TARGET)

isHarvestOpportunity(st) ==
    /\ GreaterEq(st.clicks, CONFIG.HARVEST_MIN_CLICKS)
    /\ GreaterEq(st.orders, CONFIG.HARVEST_MIN_ORDERS)
    /\ GreaterEq(st.sales, CONFIG.HARVEST_MIN_SALES)
    /\ GreaterEq(st.roas, CONFIG.ROAS_TARGET)

\* the low-ROAS test with the spend bound inclusive
isLowRoasInclusive(st) ==
    /\ GreaterEq(st.spend, I(10))
    /\ Greater(st.roas, Zero)
    /\ Less(st.roas, CONFIG.ROAS_TARGET)

isLowRoas(st) ==
    /\ Greater(st.spend, I(10))
    /\ Greater(st.roas, Zero)
    /\ Less(st.roas, CONFIG.ROAS_TARGET)

negativeKeywords(searchTerms) == SelectSeq(searchTerms, isNegativeKeyword)

harvestOpportunities(searchTerms) == SelectSeq(searchTerms, isHarvestOpportunity)

lowRoasTerms(searchTerms) == SelectSeq(searchTerms, isLowRoas)

RECURSIVE SumSpend(_)
SumSpend(sts) == IF sts = <<>> THEN Zero ELSE Plus(SumSpend(SubSeq(sts, 1, Len(sts) - 1)), sts[Len(sts)].spend)

\* reduce((sum, st) => sum + (st.sales * 0.15), 0)
RECURSIVE SumHarvest(_)
SumHarvest(sts) ==
    IF sts = <<>> THEN Zero
    ELSE Plus(SumHarvest(SubSeq(sts, 1, Len(sts) - 1)), Times(sts[Len(sts)].sales, <<3, 20>>))

\* reduce((sum, st) => sum + (st.spend * 0.20), 0)
RECURSIVE SumBidWaste(_)
SumBidWaste(sts) ==
    IF sts = <<>> THEN Zero
    ELSE Plus(SumBidWaste(SubSeq(sts, 1, Len(sts) - 1)), Times(sts[Len(sts)].spend, <<1, 5>>))

negativeWaste(searchTerms) == SumSpend(negativeKeywords(searchTerms))

harvestPotential(searchTerms) == SumHarvest(harvestOpportunities(searchTerms))

\* the low-ROAS waste with the negative keywords left out
bidWasteDeduplicated(searchTerms) ==
    LET Other(st) == ~isNegativeKeyword(st)
    IN  SumBidWaste(SelectSeq(lowRoasTerms(searchTerms), Other))

bidWaste(searchTerms) == SumBidWaste(lowRoasTerms(searchTerms))

monthlyTotalOpportunity(searchTerms, monthlyMultiplier) ==
    Plus(Plus(Times(negativeWaste(searchTerms), monthlyMultiplier),
              Times(harvestPotential(searchTerms), monthlyMultiplier)),
         Times(bidWaste(searchTerms), monthlyMultiplier))

\* monthlyTotalOpportunity / Math.max(monthlySpend, 1)
opportunityPercentage(searchTerms, totalSpend, monthlyMultiplier) ==
    Divide(monthlyTotalOpportunity(searchTerms, monthlyMultiplier),
           MathMax(Times(totalSpend, monthlyMultiplier), I(1)))

\* the four segments, before the final round and clamp
ScoreCurve(r) ==
    IF LessEq(r, <<1, 20>>)
    THEN Plus(I(90), Times(Minus(I(1), Divide(r, <<1, 20>>)), I(10)))
    ELSE IF LessEq(r, <<1, 10>>)
    THEN Plus(I(75), Times(Minus(I(1), Divide(Minus(r, <<1, 20>>), <<1, 20>>)), I(15)))
    ELSE IF LessEq(r, <<1, 5>>)
    THEN Plus(I(60), Times(Minus(I(1), Divide(Minus(r, <<1, 10>>), <<1, 10>>)), I(15)))
    ELSE MathMax(I(45), Minus(I(60), MathMin(Times(Minus(r, <<1, 5>>), I(100)), I(15))))

\* Math.round(Math.max(45, Math.min(100, healthScore)))
HealthScore(r) == MathRound(MathMax(I(45), MathMin(I(100), ScoreCurve(r))))

Issue(title, amount, count, priority, type) ==
    [title |-> title, amount |-> amount, count |-> count,
     priority |-> priority, type |-> type]

\* the issues with the harvest Issue pushed first
BuildIssuesHarvestFirst(searchTerms, monthlyMultiplier) ==
    (IF Len(harvestOpportunities(searchTerms)) > 0
     THEN <<Issue("Harvest Opportunities",
                  MathRound(Times(harvestPotential(searchTerms), monthlyMultiplier)),
                  Len(harvestOpportunities(searchTerms)), "high", "gain")>>
     ELSE <<>>)
    \o
    (IF Len(negativeKeywords(searchTerms)) > 0
     THEN <<Issue("Zero-Conversion Keywords",
                  MathRound(Times(negativeWaste(searchTerms), monthlyMultiplier)),
                  Len(negativeKeywords(searchTerms)), "high", "waste")>>
     ELSE <<>>)
    \o
    (IF Greater(bidWaste(searchTerms), Zero)
     THEN <<Issue("Low ROAS Targets",
                  MathRound(Times(bidWaste(searchTerms), monthlyMultiplier)),
                  Len(lowRoasTerms(searchTerms)), "medium", "waste")>>
     ELSE <<>>)

BuildIssues(searchTerms, monthlyMultiplier) ==
    (IF Len(negativeKeywords(searchTerms)) > 0
     THEN <<Issue("Zero-Conversion Keywords",
                  MathRound(Times(negativeWaste(searchTerms), monthlyMultiplier)),
                  Len(negativeKeywords(searchTerms)), "high", "waste")>>
     ELSE <<>>)
    \o
    (IF Len(harvestOpportunities(searchTerms)) > 0
     THEN <<Issue("Harvest Opportunities",
                  MathRound(Times(harvestPotential(searchTerms), monthlyMultiplier)),
                  Len(harvestOpportunities(searchTerms)), "high", "gain")>>
     ELSE <<>>)
    \o
    (IF Greater(bidWaste(searchTerms), Zero)
     THEN <<Issue("Low ROAS Targets",
                  MathRound(Times(bidWaste(searchTerms), monthlyMultiplier)),
                  Len(lowRoasTerms(searchTerms)), "medium", "waste")>>
     ELSE <<>>)

NoResult ==
    [healthScore |-> NaN, totalOpportunity |-> NaN,
     totals |-> [spend |-> NaN, sales |-> NaN, roas |-> NaN],
     dataQuality |-> [validRows |-> 0, daysInReport |-> NaN, monthlyMultiplier |-> NaN],
     issues |-> <<>>]

\* the object returned by analyzeSearchTermReport
BuildResult(acc, window) ==
    [healthScore      |-> HealthScore(opportunityPercentage(acc.searchTerms, acc.totalSpend,
                                                           window.monthlyMultiplier)),
     totalOpportunity |-> MathRound(monthlyTotalOpportunity(acc.searchTerms,
                                                            window.monthlyMultiplier)),
     totals           |-> [spend |-> MathRound(Times(acc.totalSpend, window.monthlyMultiplier)),
                           sales |-> MathRound(Times(acc.totalSales, window.monthlyMultiplier)),
                           roas  |-> IF Greater(acc.totalSpend, Zero)
                                     THEN Divide(acc.totalSales, acc.totalSpend) ELSE Zero],
     dataQuality      |-> [validRows         |-> Len(acc.searchTerms),
                           daysInReport      |-> window.daysInReport,
                           monthlyMultiplier |-> ToFixed2(window.monthlyMultiplier)],
     issues           |-> BuildIssues(acc.searchTerms, window.monthlyMultiplier)]

\* analyzeSearchTermReport(file): [error, result]
analyzeSearchTermReport(file) ==
    LET table == ReadTable(file)
        idx   == ColumnIndices(table.header)
        acc   == ParseRows(EmptyAcc, table.rows, idx)
    IN  IF table.error # NoError THEN [error |-> table.error, result |-> NoResult]
        ELSE IF MissingRequired(idx)
        THEN [error  |-> Failure("MissingRequiredColumns", FoundColumns(table.header)),
              result |-> NoResult]
        ELSE IF Len(acc.searchTerms) = 0
        THEN [error |-> Failure("NoValidRows", <<>>), result |-> NoResult]
        ELSE [error  |-> NoError,
              result |-> BuildResult(acc, ReportWindow(acc.minStartDate, acc.maxEndDate))]

(***************************************************************************)
(* The questionnaire.  An option is a record of its scoring attributes; an *)
(* attribute the option does not have is NaN (undefined || d and NaN || d  *)
(* both give d).                                                           *)
(***************************************************************************)
Option(value, midpoint, penalty, acos, complexity, waste, opportunity) ==
    [value |-> value, midpoint |-> midpoint, penalty |-> penalty,
     acos_midpoint |-> acos, complexity |-> complexity,
     waste_factor |-> waste, opportunity_factor |-> opportunity]

\* no answer: quizAnswers has no such key
NoOption == Option("", NaN, NaN, NaN, NaN, NaN, NaN)

SpendOption(value, midpoint) == Option(value, I(midpoint), NaN, NaN, NaN, NaN, NaN)

AcosOption(value, penalty, acos) == Option(value, NaN, I(penalty), acos, NaN, NaN, NaN)

CampaignsOption(value, complexity) == Option(value, NaN, NaN, NaN, complexity, NaN, NaN)

WasteOption(value, penalty, waste) == Option(value, NaN, I(penalty), NaN, NaN, waste, NaN)

HarvestOption(value, penalty, opportunity) ==
    Option(value, NaN, I(penalty), NaN, NaN, NaN, opportunity)

QuestionIds == <<"spend", "acos", "campaigns", "negatives", "harvest", "competitor">>

questions ==
    [spend |->
        << SpendOption("500-2000", 1250), SpendOption("2000-5000", 3500),
           SpendOption("5000-10000", 7500), SpendOption("10000-25000", 17500),
           SpendOption("25000+", 35000) >>,
     acos |->
        << AcosOption("under-15", 0, I(12)), AcosOption("15-25", -5, I(20)),
           AcosOption("25-35", -15, I(30)), AcosOption("35-50", -25, <<85, 2>>),
           AcosOption("over-50", -35, I(60)), AcosOption("unknown", -20, I(30)) >>,
     campaigns |->
        << CampaignsOption("1-5", I(1)), CampaignsOption("5-15", <<6, 5>>),
           CampaignsOption("15-30", <<3, 2>>), CampaignsOption("30-50", <<9, 5>>),
           CampaignsOption("50+", I(2)) >>,
     negatives |->
        << WasteOption("this-week", 0, <<1, 20>>), WasteOption("this-month", -8, <<3, 25>>),
           WasteOption("2-3-months", -18, <<11, 50>>), WasteOption("6-months", -28, <<7, 20>>),
           WasteOption("never", -35, <<9, 20>>) >>,
     harvest |->
        << HarvestOption("active", 0, <<1, 20>>), HarvestOption("started", -12, <<3, 20>>),
           HarvestOption("no", -20, <<1, 4>>), HarvestOption("what", -25, <<3, 10>>) >>,
     competitor |->
        << WasteOption("weekly", 0, <<1, 20>>), WasteOption("monthly", -8, <<3, 25>>),
           WasteOption("rarely", -15, <<1, 5>>), WasteOption("never", -25, <<3, 10>>) >>]

Range(f) == {f[x] : x \in DOMAIN f}

NoAnswers == [q \in Range(QuestionIds) |-> NoOption]

\* Object.keys(quizAnswers).length
answeredCount(answers) == Cardinality({q \in DOMAIN answers : answers[q] # NoOption})

\* the value without its default
OrDefaultIgnored(a, d) == a

\* x || d on a number
OrDefault(a, d) == IF a = NaN \/ a = Zero THEN d ELSE a

BreakdownItem(title, amount, priority) ==
    [title |-> title, amount |-> amount, priority |-> priority]

\* the filter that keeps every item
PositiveAmountUnfiltered(item) == TRUE

PositiveAmount(item) == Greater(item.amount, Zero)

\* the penalties without the line of the competitor question
penaltyScoreNoCompetitor(answers) ==
    Plus(Plus(Plus(I(100), OrDefault(answers.acos.penalty, Zero)),
              OrDefault(answers.negatives.penalty, Zero)),
         OrDefault(answers.harvest.penalty, Zero))

\* the penalties with the complexity of the campaign count taken off as well
penaltyScoreComplexity(answers) ==
    Minus(Plus(Plus(Plus(Plus(I(100), OrDefault(answers.acos.penalty, Zero)),
                         OrDefault(answers.negatives.penalty, Zero)),
                    OrDefault(answers.harvest.penalty, Zero)),
               OrDefault(answers.competitor.penalty, Zero)),
          OrDefault(answers.campaigns.complexity, Zero))

\* let score = 100; score += quizAnswers.<question>?.penalty || 0, four times
penaltyScore(answers) ==
    Plus(Plus(Plus(Plus(I(100), OrDefault(answers.acos.penalty, Zero)),
                   OrDefault(answers.negatives.penalty, Zero)),
              OrDefault(answers.harvest.penalty, Zero)),
         OrDefault(answers.competitor.penalty, Zero))

calculateQuizScore(answers) ==
    LET spend == OrDefault(answers.spend.midpoint, I(3500))
        score == penaltyScore(answers)
        competitorWasteFactor == OrDefault(answers.competitor.waste_factor, <<3, 20>>)
        competitorWaste == MathRound(Times(Times(spend, competitorWasteFactor), <<7, 20>>))
        negativeWasteFactor == OrDefault(answers.negatives.waste_factor, <<3, 20>>)
        zeroConversionWaste == MathRound(Times(Times(spend, negativeWasteFactor), <<1, 4>>))
        harvestFactor == OrDefault(answers.harvest.opportunity_factor, <<3, 20>>)
        harvestGain == MathRound(Times(Times(spend, harvestFactor), <<7, 20>>))
        targetAcos == Divide(I(100), CONFIG.ROAS_TARGET)
        currentAcos == OrDefault(answers.acos.acos_midpoint, I(30))
        quizBidWaste ==
            IF Greater(currentAcos, targetAcos)
            THEN MathRound(Times(Divide(Times(spend, Minus(currentAcos, targetAcos)), I(100)),
                                 <<1, 2>>))
            ELSE Zero
        negativeGaps == MathRound(Times(Times(spend, negativeWasteFactor), <<1, 10>>))
    IN  [score |-> MathMax(I(45), MathMin(I(100), score)),
         total |-> Plus(Plus(Plus(Plus(competitorWaste, zeroConversionWaste), harvestGain),
                             quizBidWaste), negativeGaps),
         breakdown |-> SelectSeq(
             << BreakdownItem("Competitor ASIN Bleed", competitorWaste, "high"),
                BreakdownItem("Zero-Conversion Keywords", zeroConversionWaste, "high"),
                BreakdownItem("Missed Harvests", harvestGain, "high"),
                BreakdownItem("Bid Inefficiency", quizBidWaste, "medium"),
                BreakdownItem("Negative Gaps", negativeGaps, "medium") >>,
             PositiveAmount)]

NoQuizResults == [score |-> NaN, total |-> NaN, breakdown |-> <<>>]

(***************************************************************************)
(* Inputs of the model: report files built from a pool of headers and data *)
(* rows (columns: clicks, spend, sales, orders, start date, end date).     *)
(***************************************************************************)
\* Scenario A: 12 clicks, $20, no sales, no orders, no dates
RowNegative ==
    << <<"1","2">>, <<"2","0">>, <<"0">>, <<"0">>, <<>>, <<>> >>

\* Scenario B: a harvest opportunity, a 30-day window
RowHarvest ==
    << <<"1","5">>, <<"5","0">>, <<"2","0","0">>, <<"4">>, <<"2","0","2","3","-","0","1","-","0","1">>, <<"2","0","2","3","-","0","1","-","3","0">> >>

\* low ROAS on a small spend, a 364-day window
RowLowRoas ==
    << <<"5">>, <<"1","1">>, <<"5">>, <<"1">>, <<"2","0","2","3","-","0","1","-","0","1">>, <<"2","0","2","3","-","1","2","-","3","0">> >>

\* no clicks and no spend, dates spanning 365 days
RowIdle ==
    << <<"0">>, <<"0">>, <<"0">>, <<"0">>, <<"2","0","2","3","-","0","1","-","0","1">>, <<"2","0","2","3","-","1","2","-","3","1">> >>

\* a negative clicks cell
RowNegClicks ==
    << <<"-","5">>, <<"0">>, <<"1","0">>, <<"1">>, <<>>, <<>> >>

\* a negative spend cell; a start date and an end date that does not parse
RowNegSpend ==
    << <<"3">>, <<"-","5">>, <<"0">>, <<"0">>, <<"2","0","2","3","-","0","2","-","0","1">>, <<"s","o","o","n">> >>

\* sales without spend, a week one year later
RowFreeSales ==
    << <<"1","5">>, <<"0">>, <<"2","0","0">>, <<"4">>, <<"2","0","2","4","-","0","1","-","0","8">>, <<"2","0","2","4","-","0","1","-","1","4">> >>

\* a spend cell that parseFloat reads as Infinity
RowInfinite ==
    << <<"1","2">>, <<"I","n","f","i","n","i","t","y">>, <<"0">>, <<"0">>, <<>>, <<>> >>

\* currency signs, unparsable cells, an end date before the start date
RowCurrency ==
    << <<"a","b","c">>, <<"$","1","2","0","0",".","5","0">>, <<"$","9","0","0">>, <<"n","/","a">>, <<"2","0","2","3","-","0","3","-","1","0">>, <<"2","0","2","3","-","0","3","-","0","1">> >>

\* no orders but some sales: a negative keyword and low ROAS at once
RowBoth ==
    << <<"1","2">>, <<"3","0">>, <<"4","0">>, <<"0">>, <<"2","0","2","3","-","0","1","-","0","1">>, <<"2","0","2","3","-","0","1","-","0","7">> >>

\* every harvest threshold met exactly: ROAS 150 / 60 = 2.5
RowBoundary ==
    << <<"1","0">>, <<"6","0">>, <<"1","5","0">>, <<"3">>, <<>>, <<>> >>

\* clicks and spend exactly 10, no orders, ROAS 0.5
RowTen ==
    << <<"1","0">>, <<"1","0">>, <<"5">>, <<"0">>, <<>>, <<>> >>

RowPool ==
    {RowBoundary,
     RowTen,
     RowNegative,
     RowHarvest,
     RowLowRoas,
     RowIdle,
     RowNegClicks,
     RowNegSpend,
     RowFreeSales,
     RowInfinite,
     RowCurrency,
     RowBoth}

HeaderFull ==
    << <<"C","l","i","c","k","s">>, <<"S","p","e","n","d">>, <<"7"," ","D","a","y"," ","T","o","t","a","l"," ","S","a","l","e","s">>, <<"7"," ","D","a","y"," ","T","o","t","a","l"," ","O","r","d","e","r","s">>, <<"S","t","a","r","t"," ","D","a","t","e">>, <<"E","n","d"," ","D","a","t","e">> >>

HeaderScenarioA ==
    << <<"C","l","i","c","k","s">>, <<"S","p","e","n","d">>, <<"7"," ","D","a","y"," ","T","o","t","a","l"," ","S","a","l","e","s">>, <<"7"," ","D","a","y"," ","T","o","t","a","l"," ","O","r","d","e","r","s">>, <<"C","u","s","t","o","m","e","r"," ","S","e","a","r","c","h"," ","T","e","r","m">> >>

HeaderNoSpend ==
    << <<"C","l","i","c","k","s">>, <<"I","m","p","r","e","s","s","i","o","n","s">> >>

HeaderNoClicks ==
    << <<"C","o","s","t">>, <<"S","a","l","e","s">> >>

HeaderNeither ==
    << <<"K","e","y","w","o","r","d">>, <<"I","m","p","r","e","s","s","i","o","n","s">> >>

\* a Cost column ahead of the Spend column
HeaderCostFirst ==
    << <<"C","l","i","c","k","s">>, <<"C","o","s","t">>, <<"S","a","l","e","s">>, <<"O","r","d","e","r","s">>, <<"S","t","a","r","t"," ","D","a","t","e">>, <<"E","n","d"," ","D","a","t","e">>, <<"S","p","e","n","d">> >>

\* an End Date column and no Start Date column
HeaderEndDateOnly ==
    << <<"C","l","i","c","k","s">>, <<"S","p","e","n","d">>, <<"S","a","l","e","s">>, <<"O","r","d","e","r","s">>, <<"E","n","d"," ","D","a","t","e">> >>

OtherHeaders ==
    {HeaderScenarioA, HeaderNoSpend, HeaderNoClicks, HeaderNeither, HeaderCostFirst,
     HeaderEndDateOnly}

\* the most data rows of a generated report
MaxRows == 2

RowLists(n) == UNION {[1..k -> RowPool] : k \in 0..n}

ShortLists == {<<>>} \cup {<<r>> : r \in RowPool}

NameCsv == <<"r","e","p","o","r","t",".","c","s","v">>

NameXlsx == <<"R","e","p","o","r","t",".","X","L","S","X">>

NameTxt == <<"r","e","p","o","r","t",".","t","x","t">>

\* the text of a comma-delimited report, with or without a final line break
CsvText(hdr, rws, finalBreak) ==
    join(<<join(hdr, ",")>> \o [k \in 1..Len(rws) |-> join(rws[k], ",")], "\n")
        \o (IF finalBreak THEN <<"\n">> ELSE <<>>)

CsvFile(hdr, rws, finalBreak) ==
    [name |-> NameCsv, text |-> CsvText(hdr, rws, finalBreak), sheet |-> <<>>]

SheetFile(sheet) == [name |-> NameXlsx, text |-> <<>>, sheet |-> sheet]

TextFile == [name |-> NameTxt, text |-> CsvText(HeaderFull, <<RowNegative>>, TRUE), sheet |-> <<>>]

Files ==
    {CsvFile(HeaderFull, rws, nl) : rws \in RowLists(MaxRows), nl \in BOOLEAN}
    \cup {CsvFile(h, rws, nl) : h \in OtherHeaders, rws \in ShortLists, nl \in BOOLEAN}
    \cup {SheetFile(<<HeaderFull>> \o rws) : rws \in ShortLists}
    \cup {SheetFile(<<>>), TextFile}

NoFile == [name |-> <<>>, text |-> <<>>, sheet |-> <<>>]

(***************************************************************************)
(* The analysis of one file, step by step                                  *)
(***************************************************************************)
VARIABLES
    file,               \* the File handed to analyzeSearchTermReport
    pc,                 \* where the analysis stands
    header, rows,       \* the table read from the file
    indices,            \* the column index of each field
    rowIdx,             \* the next row of "for (const row of rows)"
    searchTerms, totalSpend, totalSales, totalClicks,
    minStartDate, maxEndDate,
    daysInReport, monthlyMultiplier,
    result,             \* the returned object
    error,              \* the Error thrown
    modalActive,        \* auditModal has the class "active"
    quizInitialized,
    quizHidden, resultsHidden, uploadHidden,   \* the class "hidden" of the three sections
    detailed,           \* the detailedResultsSection element
    processing,         \* the processingSection elements, in document order
    quizAnswers, selectedFile,
    getScoreDisabled, analyzeDisabled,
    quizResults,        \* what the summary section shows
    fileName, fileSelectedShown,
    errorHidden, errorText,
    inflight,           \* the analyses awaiting their file
    started             \* how many analyses were started

table == <<header, rows>>

accum == <<searchTerms, totalSpend, totalSales, totalClicks, minStartDate, maxEndDate>>

window == <<daysInReport, monthlyMultiplier>>

engineVars == <<file, pc, table, indices, rowIdx, accum, window, result, error>>

sections == <<quizHidden, resultsHidden, uploadHidden>>

quizVars == <<quizAnswers, getScoreDisabled, quizResults>>

uploadVars == <<selectedFile, analyzeDisabled, fileName, fileSelectedShown>>

errorVars == <<errorHidden, errorText>>

runVars == <<processing, inflight, started>>

pageVars == <<modalActive, quizInitialized, sections, detailed, quizVars, uploadVars,
              errorVars, runVars>>

vars == <<engineVars, pageVars>>

Acc ==
    [searchTerms  |-> searchTerms,
     totalSpend   |-> totalSpend,
     totalSales   |-> totalSales,
     totalClicks  |-> totalClicks,
     minStartDate |-> minStartDate,
     maxEndDate   |-> maxEndDate]

SetAcc(a) ==
    /\ searchTerms'  = a.searchTerms
    /\ totalSpend'   = a.totalSpend
    /\ totalSales'   = a.totalSales
    /\ totalClicks'  = a.totalClicks
    /\ minStartDate' = a.minStartDate
    /\ maxEndDate'   = a.maxEndDate

\* no detailedResultsSection element yet
NoDetailed == [exists |-> FALSE, hidden |-> TRUE, by |-> 0, data |-> NoResult]

\* the page as loaded: the modal closed, the quiz section the only one shown,
\* both buttons disabled, no file chosen
PageStart ==
    /\ modalActive = FALSE
    /\ quizHidden = FALSE
    /\ resultsHidden = TRUE
    /\ uploadHidden = TRUE
    /\ detailed = NoDetailed
    /\ processing = <<>>
    /\ quizAnswers = NoAnswers
    /\ selectedFile = NoFile
    /\ getScoreDisabled = TRUE
    /\ analyzeDisabled = TRUE
    /\ quizResults = NoQuizResults
    /\ fileName = <<>>
    /\ fileSelectedShown = FALSE
    /\ errorHidden = TRUE
    /\ errorText = NoError
    /\ inflight = {}
    /\ started = 0

EngineStart ==
    /\ pc = "read"
    /\ header = <<>>
    /\ rows = <<>>
    /\ indices = NoIndices
    /\ rowIdx = 1
    /\ searchTerms = <<>>
    /\ totalSpend = Zero
    /\ totalSales = Zero
    /\ totalClicks = Zero
    /\ minStartDate = NullDate
    /\ maxEndDate = NullDate
    /\ daysInReport = I(30)
    /\ monthlyMultiplier = I(1)
    /\ result = NoResult
    /\ error = NoError

Init ==
    /\ file \in Files
    /\ EngineStart
    /\ PageStart
    /\ quizInitialized = TRUE

\* lines 380-418: the extension check and the read of the table
ReadFile ==
    /\ pc = "read"
    /\ header' = ReadTable(file).header
    /\ rows' = ReadTable(file).rows
    /\ error' = ReadTable(file).error
    /\ pc' = IF ReadTable(file).error = NoError THEN "columns" ELSE "failed"
    /\ UNCHANGED <<file, indices, rowIdx, accum, window, result>>
    /\ UNCHANGED pageVars

\* lines 420-445: the column indices and the required-column check
ResolveColumns ==
    /\ pc = "columns"
    /\ indices' = ColumnIndices(header)
    /\ error' = IF MissingRequired(ColumnIndices(header))
                THEN Failure("MissingRequiredColumns", FoundColumns(header))
                ELSE error
    /\ pc' = IF MissingRequired(ColumnIndices(header)) THEN "failed" ELSE "rows"
    /\ UNCHANGED <<file, table, rowIdx, accum, window, result>>
    /\ UNCHANGED pageVars

\* lines 455-503: one row of the loop
ParseRow ==
    /\ pc = "rows"
    /\ rowIdx <= Len(rows)
    /\ SetAcc(ParseRowStep(Acc, rows[rowIdx], indices))
    /\ rowIdx' = rowIdx + 1
    /\ UNCHANGED <<file, pc, table, indices, window, result, error>>
    /\ UNCHANGED pageVars

\* lines 505-507: the loop is over
FinishRows ==
    /\ pc = "rows"
    /\ rowIdx > Len(rows)
    /\ error' = IF Len(searchTerms) = 0 THEN Failure("NoValidRows", <<>>) ELSE error
    /\ pc' = IF Len(searchTerms) = 0 THEN "failed" ELSE "window"
    /\ UNCHANGED <<file, table, indices, rowIdx, accum, window, result>>
    /\ UNCHANGED pageVars

\* lines 509-528: the date range and the monthly multiplier
ComputeWindow ==
    /\ pc = "window"
    /\ daysInReport' = ReportWindow(minStartDate, maxEndDate).daysInReport
    /\ monthlyMultiplier' = ReportWindow(minStartDate, maxEndDate).monthlyMultiplier
    /\ pc' = "score"
    /\ UNCHANGED <<file, table, indices, rowIdx, accum, result, error>>
    /\ UNCHANGED pageVars

\* lines 530-636: classification, health score, issues, the returned object
ScoreReport ==
    /\ pc = "score"
    /\ result' = BuildResult(Acc, [daysInReport |-> daysInReport,
                                   monthlyMultiplier |-> monthlyMultiplier])
    /\ pc' = "done"
    /\ UNCHANGED <<file, table, indices, rowIdx, accum, window, error>>
    /\ UNCHANGED pageVars

Next ==
    \/ ReadFile
    \/ ResolveColumns
    \/ ParseRow
    \/ FinishRows
    \/ ComputeWindow
    \/ ScoreReport

Spec == Init /\ [][Next]_vars

(***************************************************************************)
(* The audit modal.  A control can be used only while the modal is open    *)
(* and its section is shown.  The files a user picks and the options a     *)
(* user clicks are drawn from small sets.  Scrolling, colours, the         *)
(* progress bar and the selected/checkmark classes are left out.           *)
(***************************************************************************)
FileScenarioA == CsvFile(HeaderScenarioA, <<RowNegative>>, TRUE)

FileHarvest == CsvFile(HeaderFull, <<RowHarvest>>, TRUE)

FileHeaderOnly == CsvFile(HeaderFull, <<>>, FALSE)

FileNoSpend == CsvFile(HeaderNoSpend, <<RowNegative>>, TRUE)

FileIdle == CsvFile(HeaderFull, <<RowIdle>>, TRUE)

PageFiles == {FileScenarioA, FileHarvest, TextFile, FileHeaderOnly, FileNoSpend, FileIdle}

\* the options a user clicks: the last of each question, and for the ACOS
\* question the first as well
PageOptions(q) ==
    {questions[q][Len(questions[q])]} \cup (IF q = "acos" THEN {questions[q][1]} ELSE {})

\* the most analyses started on the page
MaxAnalyses == 2

Supported(f) == isExcel(f) \/ isCsv(f)

PageInit ==
    /\ PageStart
    /\ quizInitialized \in BOOLEAN
    /\ file = NoFile
    /\ EngineStart

\* src/landing/script.js, openAuditModal
openAuditModal ==
    /\ ~modalActive
    /\ modalActive' = TRUE
    /\ quizInitialized' = TRUE
    /\ quizHidden' = FALSE
    /\ resultsHidden' = TRUE
    /\ uploadHidden' = TRUE
    /\ UNCHANGED <<engineVars, detailed, quizVars, uploadVars, errorVars, runVars>>

\* src/landing/script.js, closeAuditModal (the close button, Escape, a click
\* outside the modal)
closeAuditModal ==
    /\ modalActive
    /\ modalActive' = FALSE
    /\ UNCHANGED <<engineVars, quizInitialized, sections, detailed, quizVars,
                   uploadVars, errorVars, runVars>>

\* selectAnswer with the button test off by one: answeredCount <= questions.length
selectAnswerOffByOne(questionId, option) ==
    /\ modalActive
    /\ quizInitialized
    /\ ~quizHidden
    /\ quizAnswers' = [quizAnswers EXCEPT ![questionId] = option]
    /\ getScoreDisabled' =
           (answeredCount([quizAnswers EXCEPT ![questionId] = option]) <= Len(QuestionIds))
    /\ UNCHANGED <<engineVars, modalActive, quizInitialized, sections, detailed,
                   quizResults, uploadVars, errorVars, runVars>>

selectAnswer(questionId, option) ==
    /\ modalActive
    /\ quizInitialized
    /\ ~quizHidden
    /\ quizAnswers' = [quizAnswers EXCEPT ![questionId] = option]
    /\ getScoreDisabled' =
           (answeredCount([quizAnswers EXCEPT ![questionId] = option]) < Len(QuestionIds))
    /\ UNCHANGED <<engineVars, modalActive, quizInitialized, sections, detailed,
                   quizResults, uploadVars, errorVars, runVars>>

\* a click on getScoreBtn
showQuizResults ==
    /\ modalActive
    /\ quizInitialized
    /\ ~quizHidden
    /\ ~getScoreDisabled
    /\ quizResults' = calculateQuizScore(quizAnswers)
    /\ quizHidden' = TRUE
    /\ resultsHidden' = FALSE
    /\ UNCHANGED <<engineVars, modalActive, quizInitialized, uploadHidden, detailed,
                   quizAnswers, getScoreDisabled, uploadVars, errorVars, runVars>>

\* a click on proceedToUploadBtn
proceedToUpload ==
    /\ modalActive
    /\ ~resultsHidden
    /\ resultsHidden' = TRUE
    /\ uploadHidden' = FALSE
    /\ UNCHANGED <<engineVars, modalActive, quizInitialized, quizHidden, detailed,
                   quizVars, uploadVars, errorVars, runVars>>

handleFileSelect(f) ==
    /\ modalActive
    /\ ~uploadHidden
    /\ selectedFile' = f
    /\ fileName' = f.name
    /\ fileSelectedShown' = TRUE
    /\ analyzeDisabled' = FALSE
    /\ errorHidden' = TRUE
    /\ UNCHANGED <<engineVars, modalActive, quizInitialized, sections, detailed,
                   quizVars, errorText, runVars>>

AnalyzeClickable == modalActive /\ ~uploadHidden /\ ~analyzeDisabled

\* the click handler of analyzeBtn: if (!selectedFile) return
analyzeClickNoFile ==
    /\ AnalyzeClickable
    /\ selectedFile = NoFile
    /\ UNCHANGED vars

\* the click handler of analyzeBtn on a file that is neither Excel nor CSV:
\* analyzeSearchTermReport throws before its first await, so the catch block
\* runs before any other event.  The indicator just inserted is the first
\* processingSection of the document, and the one the catch block removes.
analyzeClickUnsupported ==
    /\ AnalyzeClickable
    /\ selectedFile # NoFile
    /\ ~Supported(selectedFile)
    /\ uploadHidden' = FALSE
    /\ errorText' = analyzeSearchTermReport(selectedFile).error
    /\ errorHidden' = FALSE
    /\ UNCHANGED <<engineVars, modalActive, quizInitialized, quizHidden, resultsHidden,
                   detailed, quizVars, uploadVars, runVars>>

\* a call of analyzeSearchTermReport awaiting the file: the promise it
\* returned, and what that promise settles with
Analysis(id, f) == [id |-> id, file |-> f, outcome |-> analyzeSearchTermReport(f)]

\* the click handler of analyzeBtn up to "await analyzeSearchTermReport":
\* the new indicator goes right after the upload section, before older ones
analyzeClick ==
    /\ AnalyzeClickable
    /\ selectedFile # NoFile
    /\ Supported(selectedFile)
    /\ started < MaxAnalyses
    /\ errorHidden' = TRUE
    /\ uploadHidden' = TRUE
    /\ processing' = <<started + 1>> \o processing
    /\ inflight' = inflight \cup {Analysis(started + 1, selectedFile)}
    /\ started' = started + 1
    /\ UNCHANGED <<engineVars, modalActive, quizInitialized, quizHidden, resultsHidden,
                   detailed, quizVars, uploadVars, errorText>>

\* processingDiv.remove(): the element of this analysis, if still in the document
RemoveOwn(divs, id) ==
    LET Other(d) == d # id
    IN  SelectSeq(divs, Other)

\* document.getElementById('processingSection')?.remove(): the first in
\* document order
RemoveFirst(divs) == IF divs = <<>> THEN <<>> ELSE Tail(divs)

\* the rest of the try block: the analysis returned; showDetailedResults(results)
analysisResolves(a) ==
    /\ a \in inflight
    /\ a.outcome.error = NoError
    /\ inflight' = inflight \ {a}
    /\ processing' = RemoveOwn(processing, a.id)
    /\ quizHidden' = TRUE
    /\ resultsHidden' = TRUE
    /\ uploadHidden' = TRUE
    /\ detailed' = [exists |-> TRUE, hidden |-> FALSE, by |-> a.id,
                    data |-> a.outcome.result]
    /\ UNCHANGED <<engineVars, modalActive, quizInitialized, quizVars, uploadVars,
                   errorVars, started>>

\* the catch block: the analysis threw
analysisRejects(a) ==
    /\ a \in inflight
    /\ a.outcome.error # NoError
    /\ inflight' = inflight \ {a}
    /\ processing' = RemoveFirst(processing)
    /\ uploadHidden' = FALSE
    /\ errorText' = a.outcome.error
    /\ errorHidden' = FALSE
    /\ UNCHANGED <<engineVars, modalActive, quizInitialized, quizHidden, resultsHidden,
                   detailed, quizVars, uploadVars, started>>

DetailedShown == modalActive /\ detailed.exists /\ ~detailed.hidden

\* the click handler of restartAuditBtn
restartAudit ==
    /\ DetailedShown
    /\ detailed' = [detailed EXCEPT !.hidden = TRUE]
    /\ quizHidden' = FALSE
    /\ resultsHidden' = TRUE
    /\ uploadHidden' = TRUE
    /\ quizAnswers' = NoAnswers
    /\ selectedFile' = NoFile
    /\ getScoreDisabled' = TRUE
    /\ UNCHANGED <<engineVars, modalActive, quizInitialized, quizResults, analyzeDisabled,
                   fileName, fileSelectedShown, errorVars, runVars>>

\* the click handler of goToPricingBtn
goToPricing ==
    /\ DetailedShown
    /\ modalActive' = FALSE
    /\ UNCHANGED <<engineVars, quizInitialized, sections, detailed, quizVars,
                   uploadVars, errorVars, runVars>>

PageNext ==
    \/ openAuditModal
    \/ closeAuditModal
    \/ \E q \in Range(QuestionIds) : \E o \in PageOptions(q) : selectAnswer(q, o)
    \/ showQuizResults
    \/ proceedToUpload
    \/ \E f \in PageFiles : handleFileSelect(f)
    \/ analyzeClickNoFile
    \/ analyzeClickUnsupported
    \/ analyzeClick
    \/ \E a \in inflight : analysisResolves(a)
    \/ \E a \in inflight : analysisRejects(a)
    \/ restartAudit
    \/ goToPricing

PageSpec == PageInit /\ [][PageNext]_vars

(***************************************************************************)
(* calculateQuizScore on every complete or partial set of answers          *)
(***************************************************************************)
\* the options of a question, or no answer
Choices(q) == Range(questions[q]) \cup {NoOption}

AnswerSets ==
    {[spend |-> s, acos |-> a, campaigns |-> c, negatives |-> n, harvest |-> h,
      competitor |-> k] :
        s \in Choices("spend"), a \in Choices("acos"), c \in Choices("campaigns"),
        n \in Choices("negatives"), h \in Choices("harvest"), k \in Choices("competitor")}

QuizInit ==
    /\ quizAnswers \in AnswerSets
    /\ getScoreDisabled = (answeredCount(quizAnswers) < Len(QuestionIds))
    /\ quizResults = NoQuizResults
    /\ modalActive = TRUE
    /\ quizInitialized = TRUE
    /\ quizHidden = FALSE
    /\ resultsHidden = TRUE
    /\ uploadHidden = TRUE
    /\ detailed = NoDetailed
    /\ processing = <<>>
    /\ selectedFile = NoFile
    /\ analyzeDisabled = TRUE
    /\ fileName = <<>>
    /\ fileSelectedShown = FALSE
    /\ errorHidden = TRUE
    /\ errorText = NoError
    /\ inflight = {}
    /\ started = 0
    /\ file = NoFile
    /\ EngineStart

\* const results = calculateQuizScore()
callCalculateQuizScore ==
    /\ quizResults = NoQuizResults
    /\ quizResults' = calculateQuizScore(quizAnswers)
    /\ UNCHANGED <<engineVars, modalActive, quizInitialized, sections, detailed,
                   quizAnswers, getScoreDisabled, uploadVars, errorVars, runVars>>

QuizNext == callCalculateQuizScore

QuizSpec == QuizInit /\ [][QuizNext]_vars

(***************************************************************************)
(* Properties of the analysis                                              *)
(***************************************************************************)
Returned == pc = "done"

\* ResolveColumns has run
ColumnsResolved ==
    \/ pc \in {"rows", "window", "score", "done"}
    \/ pc = "failed" /\ error.kind \in {"MissingRequiredColumns", "NoValidRows"}

WindowComputed == pc \in {"score", "done"}

BothDates == minStartDate # NullDate /\ maxEndDate # NullDate

\* (max end date - min start date) in whole days, + 1
SpanDays == maxEndDate[2] - minStartDate[2] + 1

\* C1: whenever analyzeSearchTermReport returns a result, its healthScore is
\* an integer with 45 <= healthScore <= 100.
C1_HealthScoreInRange ==
    Returned =>
        /\ IsInteger(result.healthScore)
        /\ LessEq(I(45), result.healthScore)
        /\ LessEq(result.healthScore, I(100))

\* C2: the monthly multiplier is strictly greater than 0; and when no start
\* date or no end date parsed in any row, the multiplier is exactly 1 and the
\* reported window day count is exactly 30.
C2_MultiplierPositive ==
    WindowComputed =>
        /\ Greater(monthlyMultiplier, Zero)
        /\ ~BothDates => (monthlyMultiplier = I(1) /\ daysInReport = I(30))
        /\ (Returned /\ ~BothDates) => result.dataQuality.daysInReport = I(30)

\* a result returned for a report in which a start date parsed, no end date
C2_Witness ==
    /\ Returned
    /\ minStartDate # NullDate
    /\ maxEndDate = NullDate
    /\ monthlyMultiplier = I(1)

\* C3: every record emitted by the row parser has clicks, spend, sales and
\* orders >= 0.
C3_RecordsNonNegative ==
    \A k \in 1..Len(searchTerms) :
        /\ GreaterEq(searchTerms[k].clicks, Zero)
        /\ GreaterEq(searchTerms[k].spend, Zero)
        /\ GreaterEq(searchTerms[k].sales, Zero)
        /\ GreaterEq(searchTerms[k].orders, Zero)

C5_RoasDefinition ==
    \A k \in 1..Len(searchTerms) :
        searchTerms[k].roas =
            IF Greater(searchTerms[k].spend, Zero)
            THEN Divide(searchTerms[k].sales, searchTerms[k].spend)
            ELSE Zero

FieldNames ==
    [searchTerm   |-> NamesSearchTerm,
     impressions  |-> NamesImpressions,
     clicks       |-> NamesClicks,
     spend        |-> NamesSpend,
     sales        |-> NamesSales,
     orders       |-> NamesOrders,
     campaignName |-> NamesCampaignName,
     startDate    |-> NamesStartDate,
     endDate      |-> NamesEndDate]

\* 0-based position of the first header that contains the text, -1 if none
FirstContaining(hdr, name) ==
    LET hits == {k \in 1..Len(hdr) : HeaderMatches(hdr[k], name)}
    IN  IF hits = {} THEN -1 ELSE (CHOOSE k \in hits : \A j \in hits : k <= j) - 1

\* the earliest header, in header order, that contains any alias
EarliestHeader(hdr, names) ==
    LET found == {FirstContaining(hdr, names[i]) : i \in 1..Len(names)} \ {-1}
    IN  IF found = {} THEN -1 ELSE CHOOSE k \in found : \A j \in found : k <= j

\* the first header containing the earliest alias, in alias order, that any
\* header contains
EarliestAlias(hdr, names) ==
    LET used == {i \in 1..Len(names) : FirstContaining(hdr, names[i]) # -1}
    IN  IF used = {} THEN -1
        ELSE FirstContaining(hdr, names[CHOOSE i \in used : \A j \in used : i <= j])

\* C16 as claimed: the resolved column of a field is the position of the first
\* header, in header order, that contains any alias of the field; when several
\* headers each match some alias, the earliest header wins.
C16_EarliestHeaderWins ==
    ColumnsResolved =>
        \A f \in DOMAIN FieldNames : indices[f] = EarliestHeader(header, FieldNames[f])

\* C16 as amended: the resolved column of a field is the position of the first
\* header containing the earliest alias, in alias order, that some header
\* contains, and 'not found' exactly when no header contains any alias; a
\* header matching an earlier alias wins over an earlier header matching a
\* later alias.
C16_EarliestAliasWins ==
    ColumnsResolved =>
        \A f \in DOMAIN FieldNames :
            /\ indices[f] = EarliestAlias(header, FieldNames[f])
            /\ indices[f] = -1 <=>
                   \A k \in 1..Len(header) : \A i \in 1..Len(FieldNames[f]) :
                       ~HeaderMatches(header[k], FieldNames[f][i])

\* a Cost header ahead of the Spend header: the Spend header is resolved
C16_Witness ==
    /\ ColumnsResolved
    /\ indices.spend # -1
    /\ indices.spend = EarliestAlias(header, NamesSpend)
    /\ indices.spend > EarliestHeader(header, NamesSpend)

\* C7: no Issue in the returned issues list has an amount <= 0.
C7_NoNonPositiveIssue ==
    Returned =>
        \A k \in 1..Len(result.issues) : Greater(result.issues[k].amount, Zero)

\* a delimited text that is one header line, with or without a final line break
HeaderOnlyText(txt) ==
    /\ txt # <<>>
    /\ \A k \in 1..(Len(txt) - 1) : txt[k] # "\n"

\* a table with a header row and zero data rows
HeaderOnly(f) ==
    IF isExcel(f) THEN Len(f.sheet) = 1
    ELSE isCsv(f) /\ HeaderOnlyText(f.text)

\* C8: a header row followed by zero data rows is rejected with
\* EmptyOrHeaderOnly, raised by the read itself, before column validation.
C8_HeaderOnlyRejected ==
    (HeaderOnly(file) /\ pc # "read") =>
        (pc = "failed" /\ error.kind = "EmptyOrHeaderOnly")

BothParseToZero(row) ==
    /\ NumberCell(row, indices.clicks) = Zero
    /\ NumberCell(row, indices.spend) = Zero

\* the rows among the first n that do not have clicks = 0 and spend = 0
NotBothZero(n) == {k \in 1..n : ~BothParseToZero(rows[k])}

\* C9: a row is skipped exactly when both its clicks and its spend parse to 0;
\* NoValidRows is raised exactly when the required columns resolved and every
\* data row was skipped; otherwise validRows is the number of rows not skipped
\* and is >= 1.
C9_SkipExactlyWhenBothZero ==
    /\ pc = "rows" => Len(searchTerms) = Cardinality(NotBothZero(rowIdx - 1))
    /\ (ColumnsResolved /\ pc # "rows" /\ error.kind # "MissingRequiredColumns") =>
           (error.kind = "NoValidRows" <=> NotBothZero(Len(rows)) = {})
    /\ Returned =>
           /\ result.dataQuality.validRows = Cardinality(NotBothZero(Len(rows)))
           /\ result.dataQuality.validRows >= 1

\* the spend cells tried in place of a row's own
SpendCells ==
    { <<"0">>, <<"5">>, <<"1","0">>, <<"2","0">>, <<"-","5">>,
      <<"$","1","2","0","0",".","5","0">>, <<"I","n","f","i","n","i","t","y">> }

\* the data rows with the spend cell of row k replaced
WithSpend(k, cell) ==
    [rows EXCEPT ![k] = [rows[k] EXCEPT ![indices.spend + 1] = cell]]

\* what the analysis returns for other data rows under the same header
ResultOfRows(rws) ==
    LET acc == ParseRows(EmptyAcc, rws, indices)
    IN  BuildResult(acc, ReportWindow(acc.minStartDate, acc.maxEndDate))

\* the amount of the negative-keyword-waste Issue, 0 when it is absent
NegativeIssueAmount(res) ==
    IF \E j \in 1..Len(res.issues) : res.issues[j].title = "Zero-Conversion Keywords"
    THEN res.issues[CHOOSE j \in 1..Len(res.issues) :
                        res.issues[j].title = "Zero-Conversion Keywords"].amount
    ELSE Zero

\* rows whose spend cell can be replaced: no orders, clicks at the threshold
ZeroOrderRows ==
    {k \in 1..Len(rows) :
        /\ indices.spend + 1 \in 1..Len(rows[k])
        /\ NumberCell(rows[k], indices.orders) = Zero
        /\ GreaterEq(NumberCell(rows[k], indices.clicks), I(10))}

\* C12: for two inputs that differ only in the spend of one record with
\* orders = 0 and clicks >= 10, the negative-keyword-waste Issue amount (0 when
\* the Issue is absent) of the input with the larger spend is >= the other's.
C12_NegativeWasteMonotone ==
    Returned =>
        \A k \in ZeroOrderRows : \A cell \in SpendCells :
            LET s1 == NumberCell(rows[k], indices.spend)
                s2 == NumberCell(WithSpend(k, cell)[k], indices.spend)
                a1 == NegativeIssueAmount(result)
                a2 == NegativeIssueAmount(ResultOfRows(WithSpend(k, cell)))
            IN  /\ LessEq(s1, s2) => LessEq(a1, a2)
                /\ LessEq(s2, s1) => LessEq(a2, a1)

\* a result whose negative-keyword amount grows strictly with a larger spend
C12_Witness ==
    /\ Returned
    /\ \E k \in ZeroOrderRows : \E cell \in SpendCells :
           /\ Less(NumberCell(rows[k], indices.spend),
                   NumberCell(WithSpend(k, cell)[k], indices.spend))
           /\ Less(NegativeIssueAmount(result),
                   NegativeIssueAmount(ResultOfRows(WithSpend(k, cell))))

\* C17: when both a minimum start date and a maximum end date exist and the
\* inclusive day count is <= 0, the window falls back as for spans >= 365: the
\* reported day count (dataQuality.daysInReport) is 30 and the multiplier is
\* 1; the reported day count is therefore always >= 1.
C17_NonPositiveSpanFallsBack ==
    Returned =>
        /\ (BothDates /\ SpanDays <= 0) =>
               (result.dataQuality.daysInReport = I(30) /\ monthlyMultiplier = I(1))
        /\ GreaterEq(result.dataQuality.daysInReport, I(1))

\* the rows that become records
AcceptedRows ==
    LET Kept(row) == row # <<>> /\ RowAccepted(row, indices)
    IN  SelectSeq(rows, Kept)

\* the date bounds over the rows that become records
AcceptedBounds == ParseRows(EmptyAcc, AcceptedRows, indices)

\* C18 as claimed: the report window bounds are the minimum start date and the maximum
\* end date over the accepted records, each tracked on its own; a row that is
\* discarded for having zero clicks and zero spend does not change the day
\* count or the multiplier.
C18_WindowOverAcceptedRecords ==
    WindowComputed =>
        /\ minStartDate = AcceptedBounds.minStartDate
        /\ maxEndDate = AcceptedBounds.maxEndDate
        /\ [daysInReport |-> daysInReport, monthlyMultiplier |-> monthlyMultiplier]
               = ReportWindow(AcceptedBounds.minStartDate, AcceptedBounds.maxEndDate)

\* the dates that parsed in a column, over every row read, kept or discarded
DatesRead(col) ==
    {DateCell(rows[k], col) : k \in {j \in 1..Len(rows) : rows[j] # <<>>}} \ {NullDate}

Earliest(dates) ==
    IF dates = {} THEN NullDate ELSE CHOOSE d \in dates : \A e \in dates : d[2] <= e[2]

Latest(dates) ==
    IF dates = {} THEN NullDate ELSE CHOOSE d \in dates : \A e \in dates : d[2] >= e[2]

\* a row with a date that is discarded for having no clicks and no spend
DiscardedDated(k) ==
    /\ rows[k] # <<>>
    /\ ~RowAccepted(rows[k], indices)
    /\ DateCell(rows[k], indices.startDate) # NullDate

\* C18 as amended: the report window bounds are the minimum start date and the
\* maximum end date over every data row read whose date cell parses, each
\* tracked on its own (not paired per row); a row that is discarded for having
\* zero clicks and zero spend still counts towards the bounds, and so towards
\* the day count and the multiplier.
C18_WindowOverAllRows ==
    WindowComputed =>
        /\ minStartDate = Earliest(DatesRead(indices.startDate))
        /\ maxEndDate = Latest(DatesRead(indices.endDate))

\* a discarded row sets the minimum start date, a record the maximum end date,
\* and the window is not the window of the records alone
C18_Witness ==
    /\ WindowComputed
    /\ \E k \in 1..Len(rows) :
           DiscardedDated(k) /\ DateCell(rows[k], indices.startDate) = minStartDate
    /\ maxEndDate = AcceptedBounds.maxEndDate
    /\ maxEndDate # NullDate
    /\ [daysInReport |-> daysInReport, monthlyMultiplier |-> monthlyMultiplier]
           # ReportWindow(AcceptedBounds.minStartDate, AcceptedBounds.maxEndDate)

\* the three tests as the specification words them, thresholds written out
NegativeCandidate(st) ==
    GreaterEq(st.clicks, I(10)) /\ GreaterEq(st.spend, I(10)) /\ st.orders = Zero

HarvestCandidate(st) ==
    /\ GreaterEq(st.clicks, I(10))
    /\ GreaterEq(st.orders, I(3))
    /\ GreaterEq(st.sales, I(150))
    /\ GreaterEq(st.roas, <<5, 2>>)

LowEfficiency(st) ==
    Greater(st.spend, I(10)) /\ Greater(st.roas, Zero) /\ Less(st.roas, <<5, 2>>)

\* the records count of the Issue with a title, 0 when the Issue is absent
IssueCount(res, title) ==
    IF \E j \in 1..Len(res.issues) : res.issues[j].title = title
    THEN res.issues[CHOOSE j \in 1..Len(res.issues) : res.issues[j].title = title].count
    ELSE 0

HowMany(sts, Test(_)) == Cardinality({k \in 1..Len(sts) : Test(sts[k])})

\* C19: each accepted record is classified by three independently evaluated
\* predicates with the default thresholds: negative-keyword candidate iff
\* clicks >= 10, spend >= 10 and orders = 0; harvest opportunity iff
\* clicks >= 10, orders >= 3, sales >= 150 and ROAS >= 2.5; low-efficiency iff
\* spend > 10 and 0 < ROAS < 2.5.  Membership of a record does not depend on
\* any other record.
C19_ClassificationPredicates ==
    Returned =>
        /\ negativeKeywords(searchTerms) = SelectSeq(searchTerms, NegativeCandidate)
        /\ harvestOpportunities(searchTerms) = SelectSeq(searchTerms, HarvestCandidate)
        /\ lowRoasTerms(searchTerms) = SelectSeq(searchTerms, LowEfficiency)
        /\ \A k \in 1..Len(searchTerms) :
               LET st == searchTerms[k]
               IN  /\ negativeKeywords(<<st>>) = (IF NegativeCandidate(st) THEN <<st>> ELSE <<>>)
                   /\ harvestOpportunities(<<st>>) = (IF HarvestCandidate(st) THEN <<st>> ELSE <<>>)
                   /\ lowRoasTerms(<<st>>) = (IF LowEfficiency(st) THEN <<st>> ELSE <<>>)
        /\ IssueCount(result, "Zero-Conversion Keywords") = HowMany(searchTerms, NegativeCandidate)
        /\ IssueCount(result, "Harvest Opportunities") = HowMany(searchTerms, HarvestCandidate)
        /\ IssueCount(result, "Low ROAS Targets") = HowMany(searchTerms, LowEfficiency)

\* a result over a record with every harvest threshold met exactly and a
\* record with clicks and spend exactly 10: the first is a harvest opportunity,
\* the second a negative-keyword candidate, neither is low-efficiency
C19_Witness ==
    /\ Returned
    /\ \E k \in 1..Len(searchTerms) :
           /\ searchTerms[k].clicks = I(10) /\ searchTerms[k].orders = I(3)
           /\ searchTerms[k].sales = I(150) /\ searchTerms[k].roas = <<5, 2>>
           /\ HarvestCandidate(searchTerms[k]) /\ ~LowEfficiency(searchTerms[k])
    /\ \E k \in 1..Len(searchTerms) :
           /\ searchTerms[k].clicks = I(10) /\ searchTerms[k].spend = I(10)
           /\ Greater(searchTerms[k].roas, Zero)
           /\ NegativeCandidate(searchTerms[k]) /\ ~LowEfficiency(searchTerms[k])
    /\ IssueCount(result, "Harvest Opportunities") = 1
    /\ IssueCount(result, "Zero-Conversion Keywords") = 1
    /\ IssueCount(result, "Low ROAS Targets") = 0

RECURSIVE SumOf(_)
SumOf(nums) == IF nums = <<>> THEN Zero ELSE Plus(Head(nums), SumOf(Tail(nums)))

SpendOf(sts) == SumOf([k \in 1..Len(sts) |-> sts[k].spend])

SalesOf(sts) == SumOf([k \in 1..Len(sts) |-> sts[k].sales])

\* multiplier x (spend of the negative-keyword records + 0.15 x sales of the
\* harvest records + 0.20 x spend of the low-efficiency records)
TotalOpportunity ==
    Times(monthlyMultiplier,
          Plus(Plus(SpendOf(SelectSeq(searchTerms, NegativeCandidate)),
                    Times(<<3, 20>>, SalesOf(SelectSeq(searchTerms, HarvestCandidate)))),
               Times(<<1, 5>>, SpendOf(SelectSeq(searchTerms, LowEfficiency)))))

\* multiplier x total spend of the accepted records
MonthlySpend == Times(monthlyMultiplier, SpendOf(searchTerms))

\* C20: the monthly total opportunity equals multiplier x (sum of spend over
\* negative-keyword records + 0.15 x sum of sales over harvest records + 0.20 x
\* sum of spend over low-efficiency records), a record in two categories
\* counting in both sums; monthly spend equals multiplier x total spend of all
\* accepted records; the opportunity ratio is total opportunity /
\* max(monthly spend, 1).
C20_TotalsWithoutDeduplication ==
    Returned =>
        /\ monthlyTotalOpportunity(searchTerms, monthlyMultiplier) = TotalOpportunity
        /\ result.totalOpportunity = MathRound(TotalOpportunity)
        /\ Times(totalSpend, monthlyMultiplier) = MonthlySpend
        /\ result.totals.spend = MathRound(MonthlySpend)
        /\ opportunityPercentage(searchTerms, totalSpend, monthlyMultiplier)
               = Divide(TotalOpportunity, MathMax(MonthlySpend, I(1)))
        /\ result.healthScore
               = HealthScore(Divide(TotalOpportunity, MathMax(MonthlySpend, I(1))))

\* a result over a record that is a negative-keyword candidate and
\* low-efficiency at once: its spend counts once in full and once at 0.20
C20_Witness ==
    /\ Returned
    /\ Len(searchTerms) = 1
    /\ NegativeCandidate(searchTerms[1]) /\ LowEfficiency(searchTerms[1])
    /\ IsInteger(result.totalOpportunity)
    /\ result.totalOpportunity
           = MathRound(Times(monthlyMultiplier, Times(<<6, 5>>, searchTerms[1].spend)))
    /\ Greater(result.totalOpportunity,
               MathRound(Times(monthlyMultiplier, searchTerms[1].spend)))

\* the opportunity ratio of the state: total opportunity / max(monthly spend, 1)
OpportunityRatio == Divide(TotalOpportunity, MathMax(MonthlySpend, I(1)))

\* Math.round of a segment value held to [45, 100]
RoundedInRange(x) == MathRound(MathMax(I(45), MathMin(I(100), x)))

\* ratios from -0.10 to 0.50 in steps of 0.01
RatioGrid == {<<k, 100>> : k \in -10..50}

\* C21: healthScore equals the four-segment reference function of the
\* opportunity ratio r, rounded and clamped to [45, 100]:
\* 90 + (1 - r/0.05) x 10 for r <= 0.05; 75 + (1 - (r - 0.05)/0.05) x 15 for
\* 0.05 < r <= 0.10; 60 + (1 - (r - 0.10)/0.10) x 15 for 0.10 < r <= 0.20;
\* max(45, 60 - min((r - 0.20) x 100, 15)) for r > 0.20.  It is non-increasing
\* in r, 100 at r = 0, 90 at 0.05, 75 at 0.10, 60 at 0.20 and 45 from 0.35 on.
C21_HealthScoreReference ==
    Returned =>
        LET r == OpportunityRatio
            score == result.healthScore
        IN  /\ LessEq(r, <<1, 20>>) =>
                   score = RoundedInRange(Plus(I(90),
                               Times(Minus(I(1), Divide(r, <<1, 20>>)), I(10))))
            /\ (Greater(r, <<1, 20>>) /\ LessEq(r, <<1, 10>>)) =>
                   score = RoundedInRange(Plus(I(75),
                               Times(Minus(I(1), Divide(Minus(r, <<1, 20>>), <<1, 20>>)), I(15))))
            /\ (Greater(r, <<1, 10>>) /\ LessEq(r, <<1, 5>>)) =>
                   score = RoundedInRange(Plus(I(60),
                               Times(Minus(I(1), Divide(Minus(r, <<1, 10>>), <<1, 10>>)), I(15))))
            /\ Greater(r, <<1, 5>>) =>
                   score = RoundedInRange(MathMax(I(45),
                               Minus(I(60), MathMin(Times(Minus(r, <<1, 5>>), I(100)), I(15)))))
            /\ IsInteger(score) /\ LessEq(I(45), score) /\ LessEq(score, I(100))
            /\ \A a \in RatioGrid :
                   /\ LessEq(r, a) => GreaterEq(score, HealthScore(a))
                   /\ LessEq(a, r) => GreaterEq(HealthScore(a), score)
            /\ r = Zero => score = I(100)
            /\ r = <<1, 20>> => score = I(90)
            /\ r = <<1, 10>> => score = I(75)
            /\ r = <<1, 5>> => score = I(60)
            /\ GreaterEq(r, <<7, 20>>) => score = I(45)

\* the Issue list as the specification words it: one Issue per non-empty
\* category, in the order negative-keyword, harvest, low-efficiency
IssuesByCategory ==
    LET neg  == SelectSeq(searchTerms, NegativeCandidate)
        harv == SelectSeq(searchTerms, HarvestCandidate)
        low  == SelectSeq(searchTerms, LowEfficiency)
    IN  (IF neg = <<>> THEN <<>>
         ELSE << [title    |-> "Zero-Conversion Keywords",
                  amount   |-> MathRound(Times(SpendOf(neg), monthlyMultiplier)),
                  count    |-> Len(neg),
                  priority |-> "high",
                  type     |-> "waste"] >>)
        \o
        (IF harv = <<>> THEN <<>>
         ELSE << [title    |-> "Harvest Opportunities",
                  amount   |-> MathRound(Times(Times(<<3, 20>>, SalesOf(harv)), monthlyMultiplier)),
                  count    |-> Len(harv),
                  priority |-> "high",
                  type     |-> "gain"] >>)
        \o
        (IF low = <<>> THEN <<>>
         ELSE << [title    |-> "Low ROAS Targets",
                  amount   |-> MathRound(Times(Times(<<1, 5>>, SpendOf(low)), monthlyMultiplier)),
                  count    |-> Len(low),
                  priority |-> "medium",
                  type     |-> "waste"] >>)

\* one record with 12 clicks, spend 20, no sales, no orders, and no dates
ScenarioA ==
    /\ Returned
    /\ Len(searchTerms) = 1
    /\ searchTerms[1].clicks = I(12) /\ searchTerms[1].spend = I(20)
    /\ searchTerms[1].sales = Zero /\ searchTerms[1].orders = Zero
    /\ ~BothDates

\* C22: the issues list contains exactly one Issue for each non-empty category
\* and none for an empty one, in the order negative-keyword, harvest,
\* low-efficiency; each Issue's count is the number of records in its category
\* and its amount the rounded monthly figure; priority is high for
\* negative-keyword and harvest, medium for low-efficiency; type is gain only
\* for harvest.  One record with 12 clicks, spend 20, 0 sales, 0 orders and no
\* dates gives exactly one negative-keyword Issue of amount 20, count 1.
C22_OneIssuePerCategory ==
    Returned =>
        /\ result.issues = IssuesByCategory
        /\ ScenarioA =>
               (/\ Len(result.issues) = 1
                /\ result.issues[1].title = "Zero-Conversion Keywords"
                /\ result.issues[1].amount = I(20)
                /\ result.issues[1].count = 1)

\* Scenario A has returned its single negative-keyword Issue
C22_Witness ==
    /\ ScenarioA
    /\ Len(result.issues) = 1
    /\ result.issues[1].amount = I(20)
    /\ result.issues[1].type = "waste"

\* records around the thresholds, with the roas the parser derives
GridValues == {Zero, I(3), I(9), I(10), I(11), I(150), I(400), PosInf}

GridRecords ==
    {[searchTerm |-> <<>>, impressions |-> Zero, clicks |-> c, spend |-> sp,
      sales |-> sa, orders |-> o, campaignName |-> <<>>, roas |-> Roas(sa, sp)] :
        c \in {I(9), I(10)}, sp \in GridValues, sa \in GridValues,
        o \in {Zero, I(2), I(3)}}

\* a record is never a harvest opportunity together with another category
HarvestAlone(st) ==
    /\ ~(isHarvestOpportunity(st) /\ isNegativeKeyword(st))
    /\ ~(isHarvestOpportunity(st) /\ isLowRoas(st))
    /\ (isNegativeKeyword(st) /\ isLowRoas(st)) =>
           (st.orders = Zero /\ Greater(st.sales, Zero))

\* C25: with the default thresholds no record is both a harvest opportunity
\* and a negative-keyword candidate, and none is both a harvest opportunity and
\* low-efficiency; the only two categories a record can be in at once are
\* negative-keyword candidate and low-efficiency (orders = 0 but sales > 0).
C25_HarvestExcludesOthers ==
    /\ \A k \in 1..Len(searchTerms) : HarvestAlone(searchTerms[k])
    /\ Returned => \A st \in GridRecords : HarvestAlone(st)

\* a returned analysis with a record that is a negative-keyword candidate and
\* low-efficiency at once, next to nothing that is a harvest opportunity too
C25_Witness ==
    /\ Returned
    /\ \E k \in 1..Len(searchTerms) :
           /\ isNegativeKeyword(searchTerms[k])
           /\ isLowRoas(searchTerms[k])
           /\ ~isHarvestOpportunity(searchTerms[k])
           /\ searchTerms[k].orders = Zero
           /\ Greater(searchTerms[k].sales, Zero)
    /\ IssueCount(result, "Zero-Conversion Keywords") >= 1
    /\ IssueCount(result, "Low ROAS Targets") >= 1

\* C30: for every header list, no two distinct logical fields that resolve are
\* mapped to the same column position; in particular the start-date and the
\* end-date field never resolve to the same column.
C30_DistinctColumns ==
    ColumnsResolved =>
        \A f \in DOMAIN FieldNames : \A g \in DOMAIN FieldNames :
            (f # g /\ indices[f] # -1 /\ indices[g] # -1) => indices[f] # indices[g]

(***************************************************************************)
(* Properties of the questionnaire                                         *)
(***************************************************************************)
\* the penalty of an answer as an integer, 0 when there is none
PenaltyOf(opt) == IF opt.penalty = NaN THEN 0 ELSE opt.penalty[1]

PenaltySum(answers) ==
    PenaltyOf(answers.acos) + PenaltyOf(answers.negatives)
        + PenaltyOf(answers.harvest) + PenaltyOf(answers.competitor)

Clamped(n) == IF n < 45 THEN 45 ELSE IF n > 100 THEN 100 ELSE n

\* every question answered, each at an option no other option of it beats
MostFavourable(answers) ==
    \A q \in Range(QuestionIds) :
        /\ answers[q] \in Range(questions[q])
        /\ \A o \in Range(questions[q]) : PenaltyOf(o) <= PenaltyOf(answers[q])

Scored == quizResults # NoQuizResults

\* C14: calculateQuizScore returns score = max(45, min(100, 100 + the sum of
\* the penalties of the answered ACOS, negatives, harvest and competitor
\* options)), an unanswered question counting 0; it is 100 when all six answers
\* are the most favourable, and in [45, 100] for every complete or partial set.
C14_QuizScoreClamped ==
    Scored =>
        /\ quizResults.score = I(Clamped(100 + PenaltySum(quizAnswers)))
        /\ LessEq(I(45), quizResults.score) /\ LessEq(quizResults.score, I(100))
        /\ MostFavourable(quizAnswers) => quizResults.score = I(100)

\* a partial answer set whose penalties fall below the floor, scored 45
C14_Witness ==
    /\ Scored
    /\ answeredCount(quizAnswers) < Len(QuestionIds)
    /\ 100 + PenaltySum(quizAnswers) < 45
    /\ quizResults.score = I(45)

\* a field of the answered option, the default when the question is unanswered
Answered(answers, q, field, default) ==
    IF answers[q] = NoOption THEN default ELSE answers[q][field]

\* the five dollar components as the specification words them
Components(answers) ==
    LET spend      == Answered(answers, "spend", "midpoint", I(3500))
        competitor == Answered(answers, "competitor", "waste_factor", <<3, 20>>)
        negs       == Answered(answers, "negatives", "waste_factor", <<3, 20>>)
        harv       == Answered(answers, "harvest", "opportunity_factor", <<3, 20>>)
        acosMid    == Answered(answers, "acos", "acos_midpoint", I(30))
    IN  [competitorWaste     |-> MathRound(Times(Times(spend, competitor), <<35, 100>>)),
         zeroConversionWaste |-> MathRound(Times(Times(spend, negs), <<25, 100>>)),
         harvestGain         |-> MathRound(Times(Times(spend, harv), <<35, 100>>)),
         negativeGaps        |-> MathRound(Times(Times(spend, negs), <<10, 100>>)),
         bidWaste            |-> IF Greater(acosMid, I(40))
                                 THEN MathRound(Times(Times(spend,
                                          Divide(Minus(acosMid, I(40)), I(100))), <<1, 2>>))
                                 ELSE Zero]

\* the amount of the breakdown item with a title, 0 when the item is absent
BreakdownAmount(res, title) ==
    IF \E j \in 1..Len(res.breakdown) : res.breakdown[j].title = title
    THEN res.breakdown[CHOOSE j \in 1..Len(res.breakdown) :
                           res.breakdown[j].title = title].amount
    ELSE Zero

Partial(answers) == \E q \in Range(QuestionIds) : answers[q] = NoOption

\* C23: calculateQuizScore does not fail on a partial answer set and computes
\* five dollar components from spend = the selected spend midpoint (3500 when
\* unanswered) and the answered factors (0.15 each and ACOS midpoint 30 when
\* unanswered): competitor waste = round(spend x competitor factor x 0.35),
\* zero-conversion waste = round(spend x negatives factor x 0.25), harvest gain
\* = round(spend x harvest factor x 0.35), negative gaps = round(spend x
\* negatives factor x 0.10), bid waste = round(spend x (ACOS midpoint - 40)/100
\* x 0.5) when the ACOS midpoint exceeds 40 and 0 otherwise; total is the sum.
C23_QuizComponents ==
    Scored =>
        LET c == Components(quizAnswers)
        IN  /\ IsInteger(quizResults.total)
            /\ quizResults.total =
                   Plus(Plus(Plus(Plus(c.competitorWaste, c.zeroConversionWaste),
                                  c.harvestGain), c.negativeGaps), c.bidWaste)
            /\ BreakdownAmount(quizResults, "Competitor ASIN Bleed") = c.competitorWaste
            /\ BreakdownAmount(quizResults, "Zero-Conversion Keywords") = c.zeroConversionWaste
            /\ BreakdownAmount(quizResults, "Missed Harvests") = c.harvestGain
            /\ BreakdownAmount(quizResults, "Negative Gaps") = c.negativeGaps
            /\ BreakdownAmount(quizResults, "Bid Inefficiency") = c.bidWaste

\* only the ACOS question answered, at a midpoint of 60: 184 + 131 + 184 + 53
\* from the defaults and a bid waste of 350
C23_Witness ==
    /\ Scored
    /\ \A q \in Range(QuestionIds) \ {"acos"} : quizAnswers[q] = NoOption
    /\ quizAnswers.acos # NoOption
    /\ quizAnswers.acos.acos_midpoint = I(60)
    /\ BreakdownAmount(quizResults, "Bid Inefficiency") = I(350)
    /\ quizResults.total = I(902)

\* the answers with the spend-tier and campaign-count answers replaced
WithContext(answers, s, c) == [answers EXCEPT !.spend = s, !.campaigns = c]

\* C24: the quiz score depends only on the ACOS, negatives, harvest and
\* competitor answers: two answer sets that differ only in the spend-tier
\* and/or the campaign-count answer get the same score, and two that differ
\* only in the campaign-count answer get the same total and breakdown as well.
C24_ScoreIgnoresContext ==
    Scored =>
        /\ \A s \in Choices("spend") : \A c \in Choices("campaigns") :
               calculateQuizScore(WithContext(quizAnswers, s, c)).score = quizResults.score
        /\ \A c \in Choices("campaigns") :
               calculateQuizScore(WithContext(quizAnswers, quizAnswers.spend, c)) = quizResults

\* a scored answer set for which another spend tier changes the total and
\* leaves the score, and another campaign count changes nothing
C24_Witness ==
    /\ Scored
    /\ ~Partial(quizAnswers)
    /\ \E s \in Range(questions.spend) :
           LET other == calculateQuizScore(WithContext(quizAnswers, s, quizAnswers.campaigns))
           IN  other.total # quizResults.total /\ other.score = quizResults.score
    /\ \E c \in Range(questions.campaigns) :
           /\ c # quizAnswers.campaigns
           /\ calculateQuizScore(WithContext(quizAnswers, quizAnswers.spend, c)) = quizResults

BreakdownTitles(res) == {res.breakdown[j].title : j \in 1..Len(res.breakdown)}

BreakdownAmounts(res) == [j \in 1..Len(res.breakdown) |-> res.breakdown[j].amount]

\* C29: for every complete or partial answer set the total returned by
\* calculateQuizScore equals the sum of the amounts in its breakdown, every
\* breakdown amount is > 0, the items Competitor ASIN Bleed, Zero-Conversion
\* Keywords, Missed Harvests and Negative Gaps are always present, and Bid
\* Inefficiency is present exactly when the ACOS answer is '35-50' or
\* 'over-50'.
C29_BreakdownSumsToTotal ==
    Scored =>
        /\ quizResults.total = SumOf(BreakdownAmounts(quizResults))
        /\ \A j \in 1..Len(quizResults.breakdown) :
               Greater(quizResults.breakdown[j].amount, Zero)
        /\ {"Competitor ASIN Bleed", "Zero-Conversion Keywords", "Missed Harvests",
            "Negative Gaps"} \subseteq BreakdownTitles(quizResults)
        /\ "Bid Inefficiency" \in BreakdownTitles(quizResults)
               <=> quizAnswers.acos.value \in {"35-50", "over-50"}
        /\ Len(quizResults.breakdown) = Cardinality(BreakdownTitles(quizResults))

\* the smallest spend tier with an ACOS of 35-50 and the rest unanswered: five
\* items, the bid item at 16
C29_Witness ==
    /\ Scored
    /\ quizAnswers.acos.value = "35-50"
    /\ quizAnswers.spend.midpoint = I(1250)
    /\ quizAnswers.negatives = NoOption
    /\ Len(quizResults.breakdown) = 5
    /\ quizResults.breakdown[4].title = "Bid Inefficiency"
    /\ quizResults.breakdown[4].amount = I(16)

(***************************************************************************)
(* Properties of the page                                                  *)
(***************************************************************************)
\* what a failed attempt leaves behind: the globals and the detailed-results
\* section as they were, the upload section shown again with the error
FailureShown(err) ==
    /\ quizAnswers' = quizAnswers
    /\ selectedFile' = selectedFile
    /\ detailed' = detailed
    /\ uploadHidden' = FALSE
    /\ errorHidden' = FALSE
    /\ errorText' = err

\* C10: when an analysis attempt fails with any of the four errors,
\* quizAnswers and selectedFile keep their values, no detailed-results
\* section is created, shown or rewritten, the attempt's processing indicator
\* is removed, and the upload section is shown again with the error message.
C10_FailureLeavesStateIntact ==
    [][/\ analyzeClickUnsupported =>
              (FailureShown(analyzeSearchTermReport(selectedFile).error)
                  /\ processing' = processing)
       /\ \A a \in inflight :
              analysisRejects(a) =>
                  (FailureShown(a.outcome.error)
                      /\ a.id \notin Range(processing'))]_vars

\* C11: when an analysis renders its result as the last one in flight, no
\* analysis triggered after it has rendered another result before it: the
\* result finally shown
\* in the detailed-results section is that of the most recently triggered
\* analysis, whichever file read completes first.
C11_LatestResultRendered ==
    [][\A a \in inflight :
           (analysisResolves(a) /\ inflight = {a}) =>
               ~(detailed.exists /\ detailed.by > a.id
                   /\ detailed.data # a.outcome.result)]_vars

\* quizAnswers has an entry for each of the six questions
Complete(answers) == \A q \in Range(QuestionIds) : answers[q] # NoOption

\* C15: a selection stores its option for its question and leaves the other
\* questions' entries alone, a restart empties quizAnswers, nothing else changes
\* quizAnswers or the get-score button, and after either action the button is
\* enabled exactly when quizAnswers has an entry for each of the six questions.
C15_AnswersTrackSelections ==
    [][/\ \A q \in Range(QuestionIds) : \A o \in PageOptions(q) :
              selectAnswer(q, o) =>
                  /\ quizAnswers'[q] = o
                  /\ \A p \in Range(QuestionIds) \ {q} : quizAnswers'[p] = quizAnswers[p]
                  /\ DOMAIN quizAnswers' = Range(QuestionIds)
                  /\ getScoreDisabled' = ~Complete(quizAnswers')
       /\ restartAudit => (quizAnswers' = NoAnswers /\ getScoreDisabled')
       /\ (quizAnswers' # quizAnswers \/ getScoreDisabled' # getScoreDisabled) =>
              (restartAudit
                  \/ \E q \in Range(QuestionIds) : \E o \in PageOptions(q) :
                         selectAnswer(q, o))]_vars

\* after a restart, all six questions answered again, the ACOS question at its
\* first option, and the button enabled
C15_Witness ==
    /\ detailed.exists
    /\ detailed.hidden
    /\ Complete(quizAnswers)
    /\ quizAnswers.acos = questions.acos[1]
    /\ ~getScoreDisabled

\* C26: once every in-flight analysis has completed, each either rendering
\* results or failing, no processing indicator remains in the modal, for every
\* interleaving of overlapping analyses in which some succeed and some fail.
C26_NoIndicatorLeft ==
    (started > 0 /\ inflight = {}) => processing = <<>>

\* the content sections of the modal that are not hidden
VisibleSections ==
    {s \in {"quiz", "results", "upload", "processing", "detailed"} :
        \/ s = "quiz" /\ ~quizHidden
        \/ s = "results" /\ ~resultsHidden
        \/ s = "upload" /\ ~uploadHidden
        \/ s = "processing" /\ processing # <<>>
        \/ s = "detailed" /\ detailed.exists /\ ~detailed.hidden}

\* C27: after any sequence of modal actions at most one of the content
\* sections (quiz, quiz results, upload, processing indicator, detailed
\* results) is visible; in particular reopening the modal shows the quiz
\* section alone.
C27_OneSectionVisible ==
    [][/\ Cardinality(VisibleSections') <= 1
       /\ openAuditModal => VisibleSections' = {"quiz"}]_vars

\* C28: after any sequence of file selections, analyses and restarts the
\* analyze button is enabled only while selectedFile is non-null, so an enabled
\* analyze button never leads to the silent return taken when selectedFile is
\* null.
C28_AnalyzeEnabledOnlyWithFile ==
    /\ ~analyzeDisabled => selectedFile # NoFile
    /\ ~(AnalyzeClickable /\ selectedFile = NoFile)

=============================================================================
